---- MODULE Spec2Model ----
(***************************************************************************)
(* Object registry, reference resolution and schema validation of         *)
(* sphinxnotes-any (ObjDomain), as a state machine.                        *)
(*                                                                         *)
(* Strings whose content the code inspects (identifiers, reference values, *)
(* xref targets, anchors) are sequences of tokens, so that concatenation   *)
(* and splitting are computed.  Names that the code only compares (object  *)
(* types, field names, indexer names, docnames) are plain strings.         *)
(***************************************************************************)
EXTENDS Integers, Sequences, FiniteSets, TLC

VARIABLES
    objects,      \* ObjDomain.objects:    <<objtype, objid>> -> [docname, anchor, obj]
    references,   \* ObjDomain.references: <<objtype, objfield, objref>> -> set of objid
    op,           \* the call that produced the current state, with its arguments
    ret,          \* what that call returned or raised, and its locals
    nops,         \* number of calls made so far
    decl,         \* a schema declaration handed to Schema.__init__ / validate_schema
    built,        \* outcome of constructing / validating decl
    task          \* position and locals of a registry update that is under way

vars == <<objects, references, op, ret, nops, decl, built, task>>

-----------------------------------------------------------------------------
(* Bounds *)

\* Number of domain calls in one behaviour.
MaxOps == 3

\* Largest number of attrs in a schema declaration.
MaxAttrs == 3

\* Largest number of entities one document defines.
MaxEntities == 2

-----------------------------------------------------------------------------
(* Strings and values *)

None == "None"

X == <<"x">>
Y == <<"y">>
XslashY == <<"x", "/", "y">>
Date == <<"2023", "-", "10">>
Title == <<"T">>

\* identifiers and reference values carried by the entities
Str == {X, Y}
\* xref targets
Targets == {X, Y, XslashY, Date}

Docnames == {"d1", "d2"}

\* None | str | list[str]
VNone == [k |-> "none", v |-> <<>>]
VStr(s) == [k |-> "str", v |-> <<s>>]
VList(l) == [k |-> "list", v |-> l]

as_list(val) ==
    IF val.k = "str" THEN <<val.v[1]>>
    ELSE IF val.k = "list" THEN val.v
    ELSE <<>>

\* the tokens of s before the first sep: s.split(sep, maxsplit)[0]
RECURSIVE split_first(_, _)
split_first(s, sep) ==
    IF s = <<>> \/ Head(s) = sep THEN <<>>
    ELSE <<Head(s)>> \o split_first(Tail(s), sep)

Whitespace == {" ", "\n"}

\* str.strip()
strip(s) ==
    LET RECURSIVE lstrip(_)
        lstrip(t) ==
            IF t # <<>> /\ Head(t) \in Whitespace THEN lstrip(Tail(t)) ELSE t
        RECURSIVE rstrip(_)
        rstrip(t) ==
            IF t # <<>> /\ t[Len(t)] \in Whitespace
            THEN rstrip(SubSeq(t, 1, Len(t) - 1))
            ELSE t
    IN  rstrip(lstrip(s))

\* str.split(sep): the pieces between the separators, empty ones included
RECURSIVE split(_, _)
split(s, sep) ==
    IF s = <<>> THEN << <<>> >>
    ELSE IF Head(s) = sep THEN << <<>> >> \o split(Tail(s), sep)
    ELSE LET r == split(Tail(s), sep)
         IN  << <<Head(s)>> \o r[1] >> \o Tail(r)

-----------------------------------------------------------------------------
(* Schemas, objects *)

Field(n, u, r, idx) == [name |-> n, uniq |-> u, ref |-> r, index |-> idx]

\* objtype -> fields in the order Schema.items yields them
schemas ==
    [cat |-> << Field("name", TRUE, TRUE, <<>>),
                Field("color", FALSE, TRUE, <<"lit", "slash", "year", "month">>) >>,
     dog |-> << Field("name", FALSE, TRUE, <<>>),
                Field("id", TRUE, FALSE, <<>>) >>]

ObjTypes == DOMAIN schemas

\* the entities the host hands to note_object
Objs(objtype) ==
    IF objtype = "cat"
    THEN { [name |-> VStr(n), attrs |-> [color |-> c], content |-> VNone] :
             n \in Str, c \in {VNone, VList(<<X>>), VList(<<X, Y>>)} }
    ELSE { [name |-> n, attrs |-> [id |-> i], content |-> VNone] :
             n \in {VNone, VStr(X)}, i \in {VNone, VStr(X), VStr(Y)} }

value_in(obj, fname) ==
    IF fname = "name" THEN obj.name
    ELSE IF fname = "content" THEN obj.content
    ELSE obj.attrs[fname]

\* Schema.items(obj): (name, field, value) per declared field
items(schema, obj) ==
    [i \in 1..Len(schema) |->
        [name |-> schema[i].name, field |-> schema[i],
         val |-> value_in(obj, schema[i].name)]]

\* hashlib.sha1(pickle.dumps(obj)).hexdigest()[:7]
sha1(obj) == <<"sha1", obj>>

RECURSIVE first_uniq(_, _)
first_uniq(its, i) ==
    IF i > Len(its) THEN 0
    ELSE IF its[i].field.uniq THEN i
    ELSE first_uniq(its, i + 1)

get_object_uniq_ids(schema, obj) ==
    LET its == items(schema, obj)
        i == first_uniq(its, 1)
    IN  IF i = 0 THEN <<sha1(obj)>> ELSE as_list(its[i].val)

get_object_refs(schema, obj) ==
    LET its == items(schema, obj)
    IN  UNION { { <<its[i].name, as_list(its[i].val)[j]>> :
                    j \in 1..Len(as_list(its[i].val)) } :
                i \in {i \in 1..Len(its) : its[i].field.ref} }

-----------------------------------------------------------------------------
(* Initial state *)

\* an absent name or content field of a declaration
NoField == [name |-> None, uniq |-> FALSE, ref |-> FALSE, index |-> <<>>]

NoDecl == [name |-> NoField, content |-> NoField, attrs |-> <<>>]

\* no registry update is under way
Idle == [pc |-> "idle"]

Init ==
    /\ objects = <<>>
    /\ references = <<>>
    /\ op = [name |-> "init"]
    /\ ret = [kind |-> "none"]
    /\ nops = 0
    /\ decl = NoDecl
    /\ built = "unbuilt"
    /\ task = Idle

-----------------------------------------------------------------------------
(* ObjDomain.note_object *)

\* objects_put that keeps an entry already stored (first write wins)
objects_put_first_wins(objs, key, entry) ==
    [k \in DOMAIN objs \cup {key} |-> IF k \in DOMAIN objs THEN objs[k] ELSE entry]

\* self.objects[objtype, objid] = (docname, anchor, obj)
objects_put(objs, key, entry) ==
    [k \in DOMAIN objs \cup {key} |-> IF k = key THEN entry ELSE objs[k]]

\* references_add that assigns {objid} instead of adding to the set
references_add_assign(refs, objtype, objid, objrefs) ==
    LET keys == { <<objtype, fr[1], fr[2]>> : fr \in objrefs }
    IN  [k \in DOMAIN refs \cup keys |-> IF k \in keys THEN {objid} ELSE refs[k]]

\* for objfield, objref in objrefs:
\*     self.references.setdefault((objtype, objfield, objref), set()).add(objid)
references_add(refs, objtype, objid, objrefs) ==
    LET keys == { <<objtype, fr[1], fr[2]>> : fr \in objrefs }
    IN  [k \in DOMAIN refs \cup keys |->
            (IF k \in DOMAIN refs THEN refs[k] ELSE {})
            \cup (IF k \in keys THEN {objid} ELSE {})]

\* the value of self.objects.get((objtype, objid)): {} is None
objects_get(objs, key) ==
    IF key \in DOMAIN objs THEN {objs[key]} ELSE {}

note_object(docname, anchor, objtype, obj) ==
    LET schema == schemas[objtype]
        ids == get_object_uniq_ids(schema, obj)
    IN  IF ids = <<>>
        THEN \* get_object_uniq_ids(schema, obj)[0] raises before any update
             /\ ret' = [kind |-> "raise", exc |-> "IndexError"]
             /\ UNCHANGED <<objects, references>>
        ELSE LET objid == ids[1]
                 objrefs == get_object_refs(schema, obj)
                 entry == [docname |-> docname, anchor |-> anchor, obj |-> obj]
             IN  /\ objects' = objects_put(objects, <<objtype, objid>>, entry)
                 /\ references' = references_add(references, objtype, objid, objrefs)
                 /\ ret' = [kind |-> "return",
                            otherobj |-> objects_get(objects, <<objtype, objid>>)]

\* sphinx.util.nodes.make_id(env, document, prefix, term) in a document
\* that does not use the id yet; without a term the id is a serial number
make_id(prefix, term) ==
    IF term = <<>> THEN <<prefix, "-", "0">> ELSE <<prefix, "-">> \o term[1]

\* ObjDefineDirective.setup_anchor: the directive of a document registers
\* the object it defines under the anchor it made for it
NoteObject ==
    /\ nops < MaxOps
    /\ \E docname \in Docnames, objtype \in ObjTypes :
         \E obj \in Objs(objtype) :
            LET ahrid == make_id(objtype, get_object_uniq_ids(schemas[objtype], obj))
            IN  /\ note_object(docname, ahrid, objtype, obj)
                /\ op' = [name |-> "note_object", docname |-> docname,
                          anchor |-> ahrid, objtype |-> objtype, obj |-> obj]
    /\ nops' = nops + 1
    /\ UNCHANGED <<decl, built, task>>

-----------------------------------------------------------------------------
(* ObjDomain.clear_doc *)

\* objkeys: the keys of the objects stored at docname
clear_doc_objkeys(objs, docname) ==
    { k \in DOMAIN objs : objs[k].docname = docname }

\* del self.objects[objtype, objid] for every collected key
clear_doc_objects(objs, objkeys) ==
    [k \in DOMAIN objs \ objkeys |-> objs[k]]

\* objids.add(objid) for every collected key: the type is dropped
clear_doc_objids(objkeys) ==
    { k[2] : k \in objkeys }

\* refkeys: the reference keys whose set ids - objids is empty
clear_doc_refkeys(refs, objids) ==
    { k \in DOMAIN refs : refs[k] \ objids = {} }

\* clear_doc_references that never deletes a key
clear_doc_references_keep_empty(refs, objids) ==
    [k \in DOMAIN refs |-> refs[k] \ objids]

\* clear_doc_references that only deletes the keys in refkeys
clear_doc_references_stale(refs, objids) ==
    [k \in DOMAIN refs \ clear_doc_refkeys(refs, objids) |-> refs[k]]

\* every other set becomes ids - objids; the keys in refkeys are deleted
clear_doc_references(refs, objids) ==
    [k \in DOMAIN refs \ clear_doc_refkeys(refs, objids) |-> refs[k] \ objids]

clear_doc(docname) ==
    LET objkeys == clear_doc_objkeys(objects, docname)
        objids == clear_doc_objids(objkeys)
    IN  /\ objects' = clear_doc_objects(objects, objkeys)
        /\ references' = clear_doc_references(references, objids)
        /\ ret' = [kind |-> "return", objkeys |-> objkeys,
                   refkeys |-> clear_doc_refkeys(references, objids)]

ClearDoc ==
    /\ nops < MaxOps
    /\ \E docname \in Docnames :
            /\ clear_doc(docname)
            /\ op' = [name |-> "clear_doc", docname |-> docname]
    /\ nops' = nops + 1
    /\ UNCHANGED <<decl, built, task>>

-----------------------------------------------------------------------------
(* Reference types and indexers *)

RefType(objtype, field, indexer) ==
    [objtype |-> objtype, field |-> field, indexer |-> indexer]

\* RefType.__str__: <objtype>[.<field>[+by-<indexer>]]
RefType_str(r) ==
    r.objtype
    \o (IF r.field # None THEN "." \o r.field ELSE "")
    \o (IF r.indexer # None THEN "+" \o "by-" \o r.indexer ELSE "")

INPUTFMTS == << <<"%Y", "-", "%m", "-", "%d">>, <<"%Y", "-", "%m">>, <<"%Y">> >>
DISPFMTS_Y == <<"%Y", " nian">>
DISPFMTS_M == <<"%m", " yue">>
DISPFMTS_YM == <<"%Y", " nian ", "%m", " yue">>
DISPFMTS_DW == <<"%d", " ri, ", "%a">>

\* whether token tok is text that format token d accepts
directive_accepts(d, tok) ==
    IF d = "%Y" THEN tok \in {"2023", "2024"}
    ELSE IF d = "%m" THEN tok \in {"01", "10"}
    ELSE IF d = "%d" THEN tok \in {"01", "15"}
    ELSE IF d = "%a" THEN tok \in { "wd" \o y \o m \o dd :
                                      y \in {"2023", "2024"}, m \in {"01", "10"},
                                      dd \in {"01", "15"} }
    ELSE tok = d

\* time.strptime(v, fmt) does not raise ValueError
strptime_ok(v, fmt) ==
    /\ Len(v) = Len(fmt)
    /\ \A i \in 1..Len(fmt) : directive_accepts(fmt[i], v[i])

directive_value(v, fmt, d, default) ==
    IF \E i \in 1..Len(fmt) : fmt[i] = d
    THEN v[CHOOSE i \in 1..Len(fmt) : fmt[i] = d]
    ELSE default

\* time.strptime(v, fmt), for a v that parses
strptime(v, fmt) ==
    [Y |-> directive_value(v, fmt, "%Y", "1900"),
     m |-> directive_value(v, fmt, "%m", "01"),
     d |-> directive_value(v, fmt, "%d", "01")]

\* time.strftime(fmt, t)
strftime(fmt, t) ==
    [i \in 1..Len(fmt) |->
        IF fmt[i] = "%Y" THEN t.Y
        ELSE IF fmt[i] = "%m" THEN t.m
        ELSE IF fmt[i] = "%d" THEN t.d
        ELSE IF fmt[i] = "%a" THEN "wd" \o t.Y \o t.m \o t.d
        ELSE fmt[i]]

LiteralIndexer == [kind |-> "literal"]
PathIndexer(sep, maxsplit) == [kind |-> "path", sep |-> sep, maxsplit |-> maxsplit]
\* YearIndexer() and MonthIndexer() with the default arguments
YearIndexer ==
    [kind |-> "year", inputfmts |-> INPUTFMTS, dispfmt |-> DISPFMTS_Y,
     dispfmt_m |-> DISPFMTS_M, dispfmt_dw |-> DISPFMTS_DW]
MonthIndexer ==
    [kind |-> "month", inputfmts |-> INPUTFMTS, dispfmt |-> DISPFMTS_YM,
     dispfmt_dw |-> DISPFMTS_DW]

DEFAULT_INDEXER == LiteralIndexer

INDEXER_REGSITRY ==
    [lit |-> DEFAULT_INDEXER,
     literal |-> DEFAULT_INDEXER,
     slash |-> PathIndexer("/", 2),
     year |-> YearIndexer,
     month |-> MonthIndexer]

\* YearIndexer.anchor / MonthIndexer.anchor: the first input format that parses
RECURSIVE date_anchor(_, _, _)
date_anchor(refval, indexer, i) ==
    IF i > Len(indexer.inputfmts) THEN <<>>
    ELSE IF strptime_ok(refval, indexer.inputfmts[i])
         THEN <<"cap-">> \o strftime(indexer.dispfmt,
                                     strptime(refval, indexer.inputfmts[i]))
         ELSE date_anchor(refval, indexer, i + 1)

\* Indexer.anchor(refval)
anchor(indexer, refval) ==
    IF indexer.kind = "literal" THEN <<"cap-">> \o refval
    ELSE IF indexer.kind = "path" THEN <<"cap-">> \o split_first(refval, indexer.sep)
    ELSE date_anchor(refval, indexer, 1)

\* Category(main, sub, extra): sub and extra are VNone or VStr(s)
Category(main, sub, extra) == [main |-> main, sub |-> sub, extra |-> extra]

\* Category.index_entry_subtype
index_entry_subtype(c) ==
    IF c.sub # VNone THEN (IF c.extra # VNone THEN 2 ELSE 1) ELSE 0

\* Category.as_main
as_main(c) == Category(c.main, VNone, VNone)

\* Category.as_sub, for a category that has a sub
as_sub(c) == Category(c.main, c.sub, VNone)

\* x in datefmt for some x in ds
fmt_has(fmt, ds) == \E i \in 1..Len(fmt) : fmt[i] \in ds

\* year_entry that files a full date directly under the year
year_entry_flat(ix, v, datefmt) ==
    LET t == strptime(v, datefmt)
    IN  IF ~fmt_has(datefmt, {"%m", "%b", "%B"})
        THEN Category(strftime(ix.dispfmt, t), VNone, VNone)
        ELSE IF ~fmt_has(datefmt, {"%d", "%j"})
        THEN Category(strftime(ix.dispfmt, t), VStr(strftime(ix.dispfmt_m, t)),
                      VStr(<<>>))
        ELSE Category(strftime(ix.dispfmt, t), VNone,
                      VStr(strftime(ix.dispfmt_dw, t)))

\* the entry YearIndexer.classify makes of v parsed with datefmt
year_entry(ix, v, datefmt) ==
    LET t == strptime(v, datefmt)
    IN  IF ~fmt_has(datefmt, {"%m", "%b", "%B"})
        THEN Category(strftime(ix.dispfmt, t), VNone, VNone)
        ELSE IF ~fmt_has(datefmt, {"%d", "%j"})
        THEN Category(strftime(ix.dispfmt, t), VStr(strftime(ix.dispfmt_m, t)),
                      VStr(<<>>))
        ELSE Category(strftime(ix.dispfmt, t), VStr(strftime(ix.dispfmt_m, t)),
                      VStr(strftime(ix.dispfmt_dw, t)))

\* the entry MonthIndexer.classify makes of v parsed with datefmt
month_entry(ix, v, datefmt) ==
    LET t == strptime(v, datefmt)
    IN  IF ~fmt_has(datefmt, {"%d", "%j"})
        THEN Category(strftime(ix.dispfmt, t), VNone, VNone)
        ELSE Category(strftime(ix.dispfmt, t), VNone,
                      VStr(strftime(ix.dispfmt_dw, t)))

\* the inner loop of the date classifiers: one entry per input format that
\* parses v, from the i-th format on
RECURSIVE date_entries(_, _, _)
date_entries(ix, v, i) ==
    IF i > Len(ix.inputfmts) THEN <<>>
    ELSE (IF strptime_ok(v, ix.inputfmts[i])
          THEN << IF ix.kind = "year" THEN year_entry(ix, v, ix.inputfmts[i])
                  ELSE month_entry(ix, v, ix.inputfmts[i]) >>
          ELSE <<>>)
         \o date_entries(ix, v, i + 1)

\* the entry PathIndexer.classify makes of v
path_entry(ix, v) ==
    LET comps == split(v, ix.sep)
    IN  Category(comps[1],
                 IF ix.maxsplit = 2 /\ Len(comps) > 1 THEN VStr(comps[2]) ELSE VNone,
                 VStr(v))

\* Indexer.classify(objref): the entries of the elements of objref.as_list()
classify(ix, objref) ==
    LET classify_one(v) ==
            IF ix.kind = "literal" THEN << Category(v, VNone, VNone) >>
            ELSE IF ix.kind = "path" THEN << path_entry(ix, v) >>
            ELSE date_entries(ix, v, 1)
        l == as_list(objref)
        RECURSIVE classify_from(_)
        classify_from(i) ==
            IF i > Len(l) THEN <<>>
            ELSE classify_one(l[i]) \o classify_from(i + 1)
    IN  classify_from(1)

-----------------------------------------------------------------------------
(* ObjDomain.add_objtype: the roles and indices of the declared types *)

domain_name == "obj"

\* schema.name and schema.name.ref
name_is_ref(schema) ==
    \E i \in 1..Len(schema) : schema[i].name = "name" /\ schema[i].ref

\* the reference types add_objtype registers a role and an index for,
\* each with the indexer of its index
indices_of(objtype) ==
    LET schema == schemas[objtype]
    IN  (IF name_is_ref(schema)
         THEN { [reftype |-> RefType(objtype, None, None), indexer |-> DEFAULT_INDEXER] }
         ELSE {})
        \cup { [reftype |-> RefType(objtype, schema[i].name, None),
                indexer |-> DEFAULT_INDEXER] :
               i \in {i \in 1..Len(schema) : schema[i].ref} }
        \cup UNION { { [reftype |-> RefType(objtype, schema[i].name, schema[i].index[j]),
                        indexer |-> INDEXER_REGSITRY[schema[i].index[j]]] :
                       j \in 1..Len(schema[i].index) } :
                     i \in 1..Len(schema) }

indices_for_reftype == UNION { indices_of(objtype) : objtype \in ObjTypes }

roles == { ix.reftype : ix \in indices_for_reftype }

\* Templates.ref_by: objtype -> the fields that have a template of their own
ref_by == [cat |-> {"color"}, dog |-> {}]

\* Templates.get_ref_by
get_ref_by(reftype) ==
    IF reftype.field # None /\ reftype.field \in ref_by[reftype.objtype]
    THEN "ref_by." \o reftype.field
    ELSE "ref"

-----------------------------------------------------------------------------
(* ObjDomain.resolve_xref *)

\* lookup_objids whose unqualified lookup does not compare the type
lookup_objids_any_type(refs, reftype, target) ==
    IF reftype.indexer # None
    THEN {}
    ELSE IF reftype.field # None
    THEN IF <<reftype.objtype, reftype.field, target>> \in DOMAIN refs
         THEN refs[<<reftype.objtype, reftype.field, target>>]
         ELSE {}
    ELSE UNION { refs[k] : k \in { k \in DOMAIN refs : k[3] = target } }

\* lookup_objids that has no branch for the unqualified lookup
lookup_objids_field_only(refs, reftype, target) ==
    IF reftype.indexer # None
    THEN {}
    ELSE IF <<reftype.objtype, reftype.field, target>> \in DOMAIN refs
         THEN refs[<<reftype.objtype, reftype.field, target>>]
         ELSE {}

\* the identifiers the lookup matches
lookup_objids(refs, reftype, target) ==
    IF reftype.indexer # None
    THEN {}
    ELSE IF reftype.field # None
    THEN IF <<reftype.objtype, reftype.field, target>> \in DOMAIN refs
         THEN refs[<<reftype.objtype, reftype.field, target>>]
         ELSE {}
    ELSE UNION { refs[k] : k \in { k \in DOMAIN refs :
                                     k[1] = reftype.objtype /\ k[3] = target } }

\* _get_index_anchor whose anchor is the target itself, without 'cap-'
_get_index_anchor_bare(reftype, refval) ==
    LET index == CHOOSE ix \in indices_for_reftype : ix.reftype = reftype
    IN  [docname |-> domain_name \o "-" \o RefType_str(index.reftype),
         anchor |-> refval]

_get_index_anchor(reftype, refval) ==
    LET index == CHOOSE ix \in indices_for_reftype : ix.reftype = reftype
    IN  [docname |-> domain_name \o "-" \o RefType_str(index.reftype),
         anchor |-> anchor(index.indexer, refval)]

\* pending_node(obj, template, inline=True)
pending_node(obj, template) ==
    [kind |-> "pending_node", ctx |-> obj, template |-> template]

\* make_refnode(builder, fromdocname, todocname, anchor, contnode, ...)
make_refnode(todocname, targetid, contnode) ==
    [kind |-> "refnode", refdocname |-> todocname, refid |-> targetid,
     child |-> contnode]

\* resolve_xref that links to the index page as soon as one identifier matches
resolve_xref_index_from_one(objs, refs, reftype, target, contnode) ==
    LET objids == lookup_objids(refs, reftype, target)
    IN  IF Cardinality(objids) >= 1 \/ reftype.indexer # None
        THEN LET ia == _get_index_anchor(reftype, target)
             IN  make_refnode(ia.docname, ia.anchor, contnode)
        ELSE [kind |-> "None"]

\* resolve_xref that decides by the number of identifiers alone
resolve_xref_size_only(objs, refs, reftype, target, contnode) ==
    LET objids == lookup_objids(refs, reftype, target)
    IN  IF Cardinality(objids) > 1
        THEN LET ia == _get_index_anchor(reftype, target)
             IN  make_refnode(ia.docname, ia.anchor, contnode)
        ELSE IF Cardinality(objids) = 1
        THEN LET key == <<reftype.objtype, CHOOSE i \in objids : TRUE>>
             IN  make_refnode(objs[key].docname, objs[key].anchor,
                              pending_node(objs[key].obj, get_ref_by(reftype)))
        ELSE [kind |-> "None"]

resolve_xref(objs, refs, reftype, target, contnode) ==
    LET objids == lookup_objids(refs, reftype, target)
    IN  IF Cardinality(objids) > 1 \/ reftype.indexer # None
        THEN LET ia == _get_index_anchor(reftype, target)
             IN  make_refnode(ia.docname, ia.anchor, contnode)
        ELSE IF Cardinality(objids) = 1
        THEN LET key == <<reftype.objtype, CHOOSE i \in objids : TRUE>>
             IN  IF key \notin DOMAIN objs
                 THEN [kind |-> "raise", exc |-> "KeyError"]
                 ELSE make_refnode(objs[key].docname, objs[key].anchor,
                                   pending_node(objs[key].obj, get_ref_by(reftype)))
        ELSE [kind |-> "None"]

\* resolve_xref_references whose objids is the stored set itself, so that
\* objids.pop() takes the identifier out of the registry
resolve_xref_references_alias(refs, reftype, target) ==
    LET key == <<reftype.objtype, reftype.field, target>>
    IN  IF reftype.indexer = None /\ reftype.field # None /\ key \in DOMAIN refs
           /\ Cardinality(refs[key]) = 1
        THEN [refs EXCEPT ![key] = {}]
        ELSE refs

\* self.references after resolve_xref: objids is a set of its own, filled
\* with objids.update(ids), so objids.pop() leaves the stored sets alone
resolve_xref_references(refs, reftype, target) ==
    refs

\* the content node XRefRole hands over: the explicit title, or the target
xref_contnode(refexplicit, target) ==
    [kind |-> "literal", text |-> IF refexplicit THEN Title ELSE target]

ResolveXref ==
    /\ nops < MaxOps
    /\ \E reftype \in roles, target \in Targets, refexplicit \in BOOLEAN :
            /\ ret' = [node |-> resolve_xref(objects, references, reftype, target,
                                             xref_contnode(refexplicit, target)),
                       objids |-> lookup_objids(references, reftype, target)]
            /\ op' = [name |-> "resolve_xref", reftype |-> reftype,
                      target |-> target, refexplicit |-> refexplicit]
            /\ references' = resolve_xref_references(references, reftype, target)
    /\ nops' = nops + 1
    /\ UNCHANGED <<objects, decl, built, task>>

-----------------------------------------------------------------------------
(* Indexer.sort *)

\* a < b on str; tokens compare in code point order
RECURSIVE str_lt(_, _)
str_lt(a, b) ==
    LET TokenOrder == <<" ", "-", "/", "01", "10", "15", "2023", "2024",
                        "x", "y", "z">>
        TokenRank(tok) ==
            IF \E i \in 1..Len(TokenOrder) : TokenOrder[i] = tok
            THEN CHOOSE i \in 1..Len(TokenOrder) : TokenOrder[i] = tok
            ELSE 0
    IN  IF b = <<>> THEN FALSE
        ELSE IF a = <<>> THEN TRUE
        ELSE IF Head(a) = Head(b) THEN str_lt(Tail(a), Tail(b))
        ELSE TokenRank(Head(a)) < TokenRank(Head(b))

\* Category._sort_key of a < that of b; the categories compared under one
\* key of an index have sub (extra) either all set or all unset
sort_key_lt(a, b) ==
    LET opt_lt(x, y) ==
            IF x = VNone \/ y = VNone THEN x = VNone /\ y # VNone
            ELSE str_lt(x.v[1], y.v[1])
    IN  IF a.main # b.main THEN str_lt(a.main, b.main)
        ELSE IF a.sub # b.sub THEN opt_lt(a.sub, b.sub)
        ELSE opt_lt(a.extra, b.extra)

\* strptime('0001', '%Y')
ZEROTIME == [Y |-> "0001", m |-> "01", d |-> "01"]

\* _safe_strptime(datestr, fmt), datestr VNone or VStr(s)
_safe_strptime(datestr, fmt) ==
    IF datestr = VNone \/ datestr = VStr(<<>>) THEN ZEROTIME
    ELSE IF strptime_ok(datestr.v[1], fmt) THEN strptime(datestr.v[1], fmt)
    ELSE ZEROTIME

\* sort_by_time(a) < sort_by_time(b) in YearIndexer.sort / MonthIndexer.sort;
\* struct_time values compare by year, month and day
sort_by_time_lt(ix, a, b) ==
    LET NumOf(tok) ==
            CASE tok = "0001" -> 1
              [] tok = "01" -> 1
              [] tok = "10" -> 10
              [] tok = "15" -> 15
              [] tok = "1900" -> 1900
              [] tok = "2023" -> 2023
              [] tok = "2024" -> 2024
        n(t) == NumOf(t.Y) * 10000 + NumOf(t.m) * 100 + NumOf(t.d)
        ka == IF ix.kind = "year"
              THEN << _safe_strptime(VStr(a.main), ix.dispfmt),
                      _safe_strptime(a.sub, ix.dispfmt_m),
                      _safe_strptime(a.extra, ix.dispfmt_dw) >>
              ELSE << _safe_strptime(VStr(a.main), ix.dispfmt),
                      _safe_strptime(a.extra, ix.dispfmt_dw) >>
        kb == IF ix.kind = "year"
              THEN << _safe_strptime(VStr(b.main), ix.dispfmt),
                      _safe_strptime(b.sub, ix.dispfmt_m),
                      _safe_strptime(b.extra, ix.dispfmt_dw) >>
              ELSE << _safe_strptime(VStr(b.main), ix.dispfmt),
                      _safe_strptime(b.extra, ix.dispfmt_dw) >>
    IN  \E i \in 1..Len(ka) :
            /\ \A j \in 1..(i - 1) : ka[j] = kb[j]
            /\ n(ka[i]) < n(kb[i])

\* the sequences that list the set S once each
Perms(S) ==
    { f \in [1..Cardinality(S) -> S] :
        \A i, j \in 1..Cardinality(S) : f[i] = f[j] => i = j }

\* sort that lists the categories of a date indexer oldest first
sort_oldest_first(ix, S) ==
    LET sorts_before(a, b) ==
            IF ix.kind \in {"year", "month"} THEN sort_by_time_lt(ix, a, b)
            ELSE sort_key_lt(a, b)
    IN  CHOOSE f \in Perms(S) :
            \A i, j \in 1..Cardinality(S) : i < j => ~sorts_before(f[j], f[i])

\* Indexer.sort(data, key) of the categories in S: ascending sort key, or
\* descending time for the date indexers (reverse=True)
sort(ix, S) ==
    LET sorts_before(a, b) ==
            IF ix.kind \in {"year", "month"} THEN sort_by_time_lt(ix, b, a)
            ELSE sort_key_lt(a, b)
    IN  CHOOSE f \in Perms(S) :
            \A i, j \in 1..Cardinality(S) : i < j => ~sorts_before(f[j], f[i])

-----------------------------------------------------------------------------
(* ObjIndex.generate *)

RECURSIVE concat(_)
\* the concatenation of a sequence of lists
concat(ls) ==
    IF ls = <<>> THEN <<>> ELSE Head(ls) \o concat(Tail(ls))

IndexEntry(name, subtype, docname, anchor_, extra, qualifier, descr) ==
    [name |-> name, subtype |-> subtype, docname |-> docname, anchor |-> anchor_,
     extra |-> extra, qualifier |-> qualifier, descr |-> descr]

\* ObjIndex._generate_index_entry, for an objid that has an objects entry:
\* a set holding the entry, or empty for None; the entry is named
\* get_object_title(obj) or ValueWrapper._strify(objid)
_generate_index_entry(objs, reftype, objid, ignore_docnames, category) ==
    LET o == objs[<<reftype.objtype, objid>>]
        entry_name ==
            IF /\ o.obj.name # VNone
               /\ as_list(o.obj.name) # <<>>
               /\ as_list(o.obj.name)[1] # <<>>
            THEN as_list(o.obj.name)[1]
            ELSE objid
    IN  IF ignore_docnames # {} /\ o.docname \notin ignore_docnames
        THEN {}
        ELSE { IndexEntry(entry_name, index_entry_subtype(category),
                          o.docname, o.anchor,
                          IF category.extra = VNone THEN <<>> ELSE category.extra.v[1],
                          <<>>, concat(as_list(o.obj.content))) }

\* _generate_subcategory_index_entry that names the parent entry by main
_generate_subcategory_index_entry_main(category) ==
    IndexEntry(category.main, index_entry_subtype(category),
               "", <<>>, <<>>, <<>>, <<>>)

\* ObjIndex._generate_subcategory_index_entry
_generate_subcategory_index_entry(category) ==
    IndexEntry(category.sub.v[1], index_entry_subtype(category),
               "", <<>>, <<>>, <<>>, <<>>)

\* the reference keys the first loop of generate does not skip
generate_keys(refs, reftype) ==
    { k \in DOMAIN refs :
        /\ k[1] = reftype.objtype
        /\ reftype.field # None => k[2] = reftype.field }

\* the objids filed under category by the first loop
generate_objids(refs, reftype, indexer, category) ==
    UNION { refs[k] :
              k \in { k \in generate_keys(refs, reftype) :
                        \E i \in 1..Len(classify(indexer, VStr(k[3]))) :
                            classify(indexer, VStr(k[3]))[i] = category } }

\* every category the first loop files objids under
generate_categories(refs, reftype, indexer) ==
    UNION { { classify(indexer, VStr(k[3]))[i] :
                i \in 1..Len(classify(indexer, VStr(k[3]))) } :
            k \in generate_keys(refs, reftype) }

\* the entries of the objids under category; order is the order in which
\* the sets of objids happen to be iterated
generate_entries(objs, refs, reftype, indexer, docnames, order, category) ==
    LET objids == generate_objids(refs, reftype, indexer, category)
        ids == SelectSeq(order, LAMBDA i : i \in objids)
    IN  concat([n \in 1..Len(ids) |->
                  LET e == _generate_index_entry(objs, reftype, ids[n], docnames,
                                                 category)
                  IN  IF e = {} THEN <<>> ELSE << CHOOSE x \in e : TRUE >>])

\* generate that lists one objid per category of the single index only
generate_first_objid(objs, refs, reftype, indexer, docnames, order) ==
    LET cats == generate_categories(refs, reftype, indexer)
        mains == { as_main(c) : c \in cats }
        single(main) ==
            LET cs == sort(indexer, { c \in cats : c.sub = VNone /\ as_main(c) = main })
            IN  IF cs = <<>> THEN <<>>
                ELSE generate_entries(objs, refs, reftype, indexer, docnames,
                                      (IF Len(order) > 0 THEN <<order[1]>> ELSE <<>>),
                                      cs[1])
        sorted_mains == sort(indexer, mains)
    IN  [kind |-> "return",
         content |-> [n \in 1..Len(sorted_mains) |->
                        <<sorted_mains[n].main, single(sorted_mains[n])>>],
         collapse |-> FALSE]

\* ObjIndex.generate(docnames), docnames = {} for None
generate(objs, refs, reftype, indexer, docnames, order) ==
    LET cats == generate_categories(refs, reftype, indexer)
        mains == { as_main(c) : c \in cats }
        single(main) ==
            LET cs == sort(indexer, { c \in cats : c.sub = VNone /\ as_main(c) = main })
            IN  concat([n \in 1..Len(cs) |->
                          generate_entries(objs, refs, reftype, indexer, docnames,
                                           order, cs[n])])
        subentries(sub) ==
            LET cs == sort(indexer, { c \in cats : c.sub # VNone /\ as_sub(c) = sub })
            IN  concat([n \in 1..Len(cs) |->
                          generate_entries(objs, refs, reftype, indexer, docnames,
                                           order, cs[n])])
        dual(main) ==
            LET subs == sort(indexer, { as_sub(c) :
                                          c \in { c \in cats : c.sub # VNone
                                                               /\ as_main(c) = main } })
            IN  concat([n \in 1..Len(subs) |->
                          << _generate_subcategory_index_entry(subs[n]) >>
                          \o subentries(subs[n])])
        sorted_mains == sort(indexer, mains)
        dangling == \E c \in cats :
                        \E i \in generate_objids(refs, reftype, indexer, c) :
                            <<reftype.objtype, i>> \notin DOMAIN objs
    IN  IF dangling
        THEN [kind |-> "raise", exc |-> "KeyError"]
        ELSE [kind |-> "return",
              content |-> [n \in 1..Len(sorted_mains) |->
                             <<sorted_mains[n].main,
                               single(sorted_mains[n]) \o dual(sorted_mains[n])>>],
              collapse |-> FALSE]

\* the index <domain>-<name> is generated when its page is built; the sets
\* of objids are iterated in the order their hashes give
Generate ==
    /\ nops < MaxOps
    /\ \E index \in indices_for_reftype, docnames \in {{}, {"d1"}} :
         \E order \in Perms(UNION { references[k] : k \in DOMAIN references }) :
            /\ ret' = generate(objects, references, index.reftype, index.indexer,
                               docnames, order)
            /\ op' = [name |-> "generate", reftype |-> index.reftype,
                      docnames |-> docnames]
    /\ nops' = nops + 1
    /\ UNCHANGED <<objects, references, decl, built, task>>

-----------------------------------------------------------------------------
(* PendingObject.resolve *)

\* resolve that looks objid up without regard to the type
PendingObject_resolve_any_type(objs, objtype, objid) ==
    IF \E k \in DOMAIN objs : k[2] = objid
    THEN [kind |-> "return",
          obj |-> objs[CHOOSE k \in DOMAIN objs : k[2] = objid].obj]
    ELSE [kind |-> "raise", exc |-> "KeyError"]

\* _, _, obj = self.domain.objects[self.objtype, self.objid]; return obj
PendingObject_resolve(objs, objtype, objid) ==
    IF <<objtype, objid>> \in DOMAIN objs
    THEN [kind |-> "return", obj |-> objs[<<objtype, objid>>].obj]
    ELSE [kind |-> "raise", exc |-> "KeyError"]

\* the context of an embed directive (ObjEmbedDirective.current_context) is
\* resolved
PendingObjectResolve ==
    /\ nops < MaxOps
    /\ \E objtype \in ObjTypes, objid \in Targets :
            /\ ret' = PendingObject_resolve(objects, objtype, objid)
            /\ op' = [name |-> "resolve", objtype |-> objtype, objid |-> objid]
    /\ nops' = nops + 1
    /\ UNCHANGED <<objects, references, decl, built, task>>

-----------------------------------------------------------------------------

Next ==
    \/ NoteObject
    \/ ClearDoc
    \/ ResolveXref
    \/ Generate
    \/ PendingObjectResolve

Spec == Init /\ [][Next]_vars

-----------------------------------------------------------------------------
(* Documents processed in parallel (parallel_read_safe): the statements of *)
(* note_object and clear_doc interleave with the readers of the registry   *)

\* note_object up to and including self.objects[objtype, objid] = ...
NoteObjectObjects ==
    /\ nops < MaxOps
    /\ task = Idle
    /\ \E docname \in Docnames, objtype \in ObjTypes :
         \E obj \in Objs(objtype) :
            LET ids == get_object_uniq_ids(schemas[objtype], obj)
                ahrid == make_id(objtype, ids)
            IN  /\ op' = [name |-> "note_object.objects", docname |-> docname,
                          anchor |-> ahrid, objtype |-> objtype, obj |-> obj]
                /\ IF ids = <<>>
                   THEN /\ ret' = [kind |-> "raise", exc |-> "IndexError"]
                        /\ UNCHANGED <<objects, task>>
                   ELSE /\ objects' = objects_put(objects, <<objtype, ids[1]>>,
                                                  [docname |-> docname, anchor |-> ahrid,
                                                   obj |-> obj])
                        /\ ret' = [kind |-> "running"]
                        /\ task' = [pc |-> "note_object.references",
                                    objtype |-> objtype, objid |-> ids[1],
                                    objrefs |-> get_object_refs(schemas[objtype], obj),
                                    otherobj |-> objects_get(objects, <<objtype, ids[1]>>)]
    /\ nops' = nops + 1
    /\ UNCHANGED <<references, decl, built>>

\* the loop of note_object over objrefs, and its return
NoteObjectReferences ==
    /\ task.pc = "note_object.references"
    /\ references' = references_add(references, task.objtype, task.objid, task.objrefs)
    /\ op' = [name |-> "note_object.references"]
    /\ ret' = [kind |-> "return", otherobj |-> task.otherobj]
    /\ task' = Idle
    /\ UNCHANGED <<objects, nops, decl, built>>

\* the first two loops of clear_doc: collect objkeys, delete them from objects
ClearDocObjects ==
    /\ nops < MaxOps
    /\ task = Idle
    /\ \E docname \in Docnames :
         LET objkeys == clear_doc_objkeys(objects, docname)
         IN  /\ objects' = clear_doc_objects(objects, objkeys)
             /\ op' = [name |-> "clear_doc.objects", docname |-> docname]
             /\ ret' = [kind |-> "running"]
             /\ task' = [pc |-> "clear_doc.references",
                         objids |-> clear_doc_objids(objkeys)]
    /\ nops' = nops + 1
    /\ UNCHANGED <<references, decl, built>>

\* the last two loops of clear_doc: prune the reference sets, delete the
\* empty ones
ClearDocReferences ==
    /\ task.pc = "clear_doc.references"
    /\ references' = clear_doc_references(references, task.objids)
    /\ op' = [name |-> "clear_doc.references"]
    /\ ret' = [kind |-> "return"]
    /\ task' = Idle
    /\ UNCHANGED <<objects, nops, decl, built>>

ParNext ==
    \/ NoteObjectObjects
    \/ NoteObjectReferences
    \/ ClearDocObjects
    \/ ClearDocReferences
    \/ ResolveXref
    \/ Generate

ParSpec == Init /\ [][ParNext]_vars

-----------------------------------------------------------------------------
(* Schema.__init__ (objects.py) and validate_schema (obj.py) *)

RECURSIVE check_unique(_, _, _)
\* the loop over the fields: TRUE when it raises
check_unique(fields, i, has_unique) ==
    IF i > Len(fields) THEN FALSE
    ELSE IF fields[i] = NoField THEN check_unique(fields, i + 1, has_unique)
    ELSE IF has_unique /\ fields[i].uniq THEN TRUE
    ELSE check_unique(fields, i + 1, fields[i].uniq)

\* all_fields = [self.name, self.content] + list(self.attrs.values())
Schema_init(d) ==
    IF check_unique(<<d.name, d.content>> \o d.attrs, 1, FALSE)
    THEN "SchemaError"
    ELSE "Schema"

\* for _, field in schema.fields()
validate_schema(d) ==
    IF check_unique(<<d.name, d.content>> \o d.attrs, 1, FALSE)
    THEN "ValueError"
    ELSE "valid"

AttrNames == <<"id", "color", "owner", "picture", "height", "width">>

\* the declarations a configuration can hold
RECURSIVE AttrLists(_)
AttrLists(n) ==
    IF n = 0 THEN { <<>> }
    ELSE AttrLists(n - 1)
         \cup { Append(l, Field(AttrNames[n], u, FALSE, <<>>)) :
                  l \in { l \in AttrLists(n - 1) : Len(l) = n - 1 }, u \in BOOLEAN }

Decls ==
    [name : {NoField} \cup { Field("name", u, TRUE, <<>>) : u \in BOOLEAN },
     content : {NoField} \cup { Field("content", u, FALSE, <<>>) : u \in BOOLEAN },
     attrs : AttrLists(MaxAttrs)]

SchemaInit ==
    /\ objects = <<>>
    /\ references = <<>>
    /\ op = [name |-> "init"]
    /\ ret = [kind |-> "none"]
    /\ nops = 0
    /\ decl \in Decls
    /\ built = "unbuilt"
    /\ task = Idle

SchemaConstruct ==
    /\ built = "unbuilt"
    /\ built' = Schema_init(decl)
    /\ UNCHANGED <<objects, references, op, ret, nops, decl, task>>

SchemaValidate ==
    /\ built = "unbuilt"
    /\ built' = validate_schema(decl)
    /\ UNCHANGED <<objects, references, op, ret, nops, decl, task>>

SchemaNext ==
    \/ SchemaConstruct
    \/ SchemaValidate

SchemaSpec == SchemaInit /\ [][SchemaNext]_vars

-----------------------------------------------------------------------------
(* objects.py: Form, Field, Object *)

Single(strip_) == [kind |-> "Single", strip |-> strip_]
List(sep, strip_) == [kind |-> "List", sep |-> sep, strip |-> strip_]

\* Field.Forms
Forms ==
    [PLAIN |-> Single(FALSE), STRIPPED |-> Single(TRUE),
     WORDS |-> List(" ", TRUE), LINES |-> List("\n", FALSE)]

\* Form.extract(raw)
extract(form, raw) ==
    IF form.kind = "Single"
    THEN VStr(IF form.strip THEN strip(raw) ELSE raw)
    ELSE LET strv == split(raw, form.sep)
         IN  VList([i \in 1..Len(strv) |->
                       IF form.strip THEN strip(strv[i]) ELSE strv[i]])

\* a Field of objects.py, with the key the schema declares it under
ObjectsField(n, u, r, q, form) ==
    [name |-> n, uniq |-> u, ref |-> r, required |-> q, form |-> form]

\* Field.value_of(rawval): an optional raw string is VNone or VStr(raw);
\* with assertions enabled a required field without a raw value fails
value_of(field, rawval, optimize) ==
    IF rawval = VNone
    THEN IF field.required /\ ~optimize
         THEN [kind |-> "raise", exc |-> "AssertionError"]
         ELSE [kind |-> "return", val |-> VNone]
    ELSE [kind |-> "return", val |-> extract(field.form, rawval.v[1])]

Object(objtype, name, attrs, content) ==
    [objtype |-> objtype, name |-> name, attrs |-> attrs, content |-> content]

\* the dataclass __eq__ of Object: dicts compare without their order
Object_eq(a, b) ==
    /\ a.objtype = b.objtype
    /\ a.name = b.name
    /\ a.content = b.content
    /\ { a.attrs[i] : i \in 1..Len(a.attrs) } = { b.attrs[i] : i \in 1..Len(b.attrs) }

\* Object.hexdigest: pickle.dumps writes the dict attrs in insertion order
hexdigest(obj) == sha1(obj)

\* Schema.fields_of(obj): name, attrs, content with the field and the raw
\* value each is computed from; obj.attrs.get(name) reads the dict attrs, a
\* sequence of <<key, raw>> in insertion order
fields_of(schema, obj) ==
    LET attrs_get(name) ==
            IF \E i \in 1..Len(obj.attrs) : obj.attrs[i][1] = name
            THEN VStr(obj.attrs[CHOOSE i \in 1..Len(obj.attrs) :
                                   obj.attrs[i][1] = name][2])
            ELSE VNone
    IN  (IF schema.name # NoField
         THEN << [name |-> "name", field |-> schema.name, raw |-> obj.name] >>
         ELSE <<>>)
        \o [i \in 1..Len(schema.attrs) |->
              [name |-> schema.attrs[i].name, field |-> schema.attrs[i],
               raw |-> attrs_get(schema.attrs[i].name)]]
        \o (IF schema.content # NoField
            THEN << [name |-> "content", field |-> schema.content,
                     raw |-> obj.content] >>
            ELSE <<>>)

\* Schema.object(name, attrs, content): the loop over fields_of, field by
\* field
Schema_object(schema, name, attrs, content, optimize) ==
    LET obj == Object(schema.objtype, name, attrs, content)
        fs == fields_of(schema, obj)
        RECURSIVE object_check(_)
        object_check(i) ==
            IF i > Len(fs) THEN [kind |-> "return", obj |-> obj]
            ELSE LET v == value_of(fs[i].field, fs[i].raw, optimize)
                 IN  IF v.kind = "raise" THEN v
                     ELSE IF fs[i].field.required /\ v.val = VNone
                     THEN [kind |-> "raise", exc |-> "ObjectError",
                           field |-> fs[i].name]
                     ELSE object_check(i + 1)
    IN  object_check(1)

\* the (name, field, value) triples fields_of yields for an Object that
\* Schema.object returned
field_values(schema, obj) ==
    LET fs == fields_of(schema, obj)
    IN  [i \in 1..Len(fs) |->
           [name |-> fs[i].name, field |-> fs[i].field,
            val |-> value_of(fs[i].field, fs[i].raw, TRUE).val]]

\* Schema.identifier_of(obj): the loop over fields_of, field by field
identifier_of(schema, obj) ==
    LET fvs == field_values(schema, obj)
        RECURSIVE identifier_scan(_)
        identifier_scan(i) ==
            IF i > Len(fvs) THEN [field |-> None, id |-> hexdigest(obj)]
            ELSE IF ~fvs[i].field.uniq THEN identifier_scan(i + 1)
            ELSE IF fvs[i].val = VNone THEN [field |-> None, id |-> hexdigest(obj)]
            ELSE IF fvs[i].val.k = "str"
                 THEN [field |-> fvs[i].name, id |-> fvs[i].val.v[1]]
            ELSE IF Len(fvs[i].val.v) > 0
                 THEN [field |-> fvs[i].name, id |-> fvs[i].val.v[1]]
            ELSE identifier_scan(i + 1)
    IN  identifier_scan(1)

\* Schema.references_of(obj)
references_of(schema, obj) ==
    LET fvs == field_values(schema, obj)
        refs(fv) ==
            IF fv.val = VNone THEN {}
            ELSE IF fv.val.k = "str" THEN { <<fv.name, fv.val.v[1]>> }
            ELSE { <<fv.name, strip(fv.val.v[j])>> :
                     j \in { j \in 1..Len(fv.val.v) : strip(fv.val.v[j]) # <<>> } }
    IN  UNION { refs(fvs[i]) : i \in { i \in 1..Len(fvs) : fvs[i].field.ref } }

-----------------------------------------------------------------------------
(* AnyDirective.run: Schema.object, identifier_of, references_of *)

Red == <<"red">>
RedNlBlue == <<"red", "\n", " ", "blue">>

\* the schemas a configuration can hold: those Schema.__init__ accepts
ObjSchemas ==
    LET NameFields ==
            {NoField}
            \cup { ObjectsField("name", u, TRUE, q, Forms.STRIPPED) : u, q \in BOOLEAN }
        ColorFields ==
            { ObjectsField("color", u, TRUE, q, Forms.WORDS) : u, q \in BOOLEAN }
        IdFields ==
            { ObjectsField("id", u, r, FALSE, Forms.PLAIN) : u, r \in BOOLEAN }
        ContentFields ==
            {NoField, ObjectsField("content", FALSE, TRUE, FALSE, Forms.LINES)}
    IN  { d \in [objtype : {"cat"}, name : NameFields, content : ContentFields,
                 attrs : { <<>> } \cup { <<c>> : c \in ColorFields }
                         \cup { <<c, i>> : c \in ColorFields, i \in IdFields }] :
            Schema_init(d) = "Schema" }

ObjInit ==
    /\ objects = <<>>
    /\ references = <<>>
    /\ op = [name |-> "init"]
    /\ ret = [kind |-> "none"]
    /\ nops = 0
    /\ decl \in ObjSchemas
    /\ built = "Schema"
    /\ task = Idle

\* AnyDirective._build_object: self.options holds the options given to the
\* directive, in the order given
SchemaObject ==
    LET RawNames == {VNone, VStr(<<>>), VStr(Red)}
        RawAttrs == {<<>>, <<"red", " ", "blue", " ", "blue">>}
        RawContents == {VNone, VStr(<<>>), VStr(RedNlBlue)}
        keys == { decl.attrs[i].name : i \in 1..Len(decl.attrs) }
        Options ==
            { <<>> }
            \cup { << <<k, r>> >> : k \in keys, r \in RawAttrs }
            \cup { << <<k[1], r1>>, <<k[2], r2>> >> :
                     k \in { k \in keys \X keys : k[1] # k[2] },
                     r1 \in RawAttrs, r2 \in RawAttrs }
    IN  /\ op.name = "init"
        /\ \E name \in RawNames, attrs \in Options, content \in RawContents,
              optimize \in BOOLEAN :
                /\ op' = [name |-> "object", rawname |-> name, attrs |-> attrs,
                          content |-> content, optimize |-> optimize]
                /\ ret' = Schema_object(decl, name, attrs, content, optimize)
        /\ UNCHANGED <<objects, references, nops, decl, built, task>>

\* identifier_of on the object built, and on an equal one whose attrs were
\* inserted in another order
IdentifierOf ==
    LET n == Len(ret.obj.attrs)
        Reordered ==
            { Object(ret.obj.objtype, ret.obj.name,
                     [i \in 1..n |-> ret.obj.attrs[p[i]]], ret.obj.content) :
                p \in { p \in [1..n -> 1..n] : \A i, j \in 1..n : p[i] = p[j] => i = j } }
    IN  /\ op.name = "object"
        /\ ret.kind = "return"
        /\ \E other \in Reordered :
                /\ op' = [name |-> "identifier_of", obj |-> ret.obj, other |-> other]
                /\ ret' = [kind |-> "return",
                           val |-> identifier_of(decl, ret.obj),
                           again |-> identifier_of(decl, other)]
        /\ UNCHANGED <<objects, references, nops, decl, built, task>>

ReferencesOf ==
    /\ op.name = "object"
    /\ ret.kind = "return"
    /\ op' = [name |-> "references_of", obj |-> ret.obj]
    /\ ret' = [kind |-> "return", val |-> references_of(decl, ret.obj)]
    /\ UNCHANGED <<objects, references, nops, decl, built, task>>

ObjNext ==
    \/ SchemaObject
    \/ IdentifierOf
    \/ ReferencesOf

ObjSpec == ObjInit /\ [][ObjNext]_vars

-----------------------------------------------------------------------------
(* Schema.render_* (objects.py) over jinja2 templates *)

\* A template is a sequence of pieces: text, a variable '{{ v }}', an
\* unclosed '{{ title' (a syntax error), or '{{ title.x.y }}' (an attribute
\* of an undefined value).
var_piece(v) == "{{ " \o v \o " }}"

SyntaxErrorPiece == "{{ title"
UndefinedErrorPiece == "{{ title.x.y }}"

TemplateStrs ==
    { <<var_piece("content")>>,
      <<var_piece("title")>>,
      <<var_piece("title"), " (missing reference)">>,
      <<var_piece("title"), " (disambiguation)">>,
      <<var_piece("name"), "\n", var_piece("content")>>,
      <<SyntaxErrorPiece>>,
      <<var_piece("type"), UndefinedErrorPiece>> }

\* Environment.from_string(source) and Template.render(context): the text,
\* or the exception raised
jinja_render(source, context) ==
    IF \E i \in 1..Len(source) : source[i] = SyntaxErrorPiece
    THEN [kind |-> "raise", exc |-> "TemplateSyntaxError"]
    ELSE IF \E i \in 1..Len(source) : source[i] = UndefinedErrorPiece
    THEN [kind |-> "raise", exc |-> "UndefinedError"]
    ELSE [kind |-> "return",
          val |-> concat([i \in 1..Len(source) |->
                    IF \E v \in {"type", "name", "title", "content"} :
                          source[i] = var_piece(v)
                    THEN LET v == CHOOSE v \in {"type", "name", "title", "content"} :
                                     source[i] = var_piece(v)
                         IN  IF v \in DOMAIN context THEN context[v] ELSE <<>>
                    ELSE <<source[i]>>])]

\* the schema whose templates are rendered
RenderSchema ==
    [objtype |-> "cat",
     name |-> ObjectsField("name", TRUE, TRUE, FALSE, Forms.PLAIN),
     attrs |-> <<>>,
     content |-> ObjectsField("content", FALSE, FALSE, FALSE, Forms.PLAIN)]

RenderObjs ==
    { Object("cat", n, <<>>, c) :
        n \in {VNone, VStr(Red)}, c \in {VNone, VStr(<<>>), VStr(RedNlBlue)} }

\* Schema._context_without_object
_context_without_object(schema) ==
    [k \in {"type"} |-> <<schema.objtype>>]

\* Schema._context_of(obj): the keys whose value is not None
_context_of(schema, obj) ==
    LET fvs == field_values(schema, obj)
        val(f) == fvs[CHOOSE i \in 1..Len(fvs) : fvs[i].name = f].val
        keys == {"type"}
                \cup (IF val("name") # VNone THEN {"name", "title"} ELSE {})
                \cup (IF val("content") # VNone THEN {"content"} ELSE {})
    IN  [k \in keys |->
            IF k = "type" THEN <<schema.objtype>>
            ELSE IF k = "content" THEN val("content").v[1]
            ELSE val("name").v[1]]

\* Schema.render_description(obj); str(e) is <<exc>>
render_description(schema, template, obj) ==
    LET r == jinja_render(template, _context_of(schema, obj))
        description == IF r.kind = "raise" THEN <<r.exc>> ELSE r.val
    IN  [kind |-> "return", val |-> split(description, "\n")]

\* Schema.render_reference(obj)
render_reference(schema, template, obj) ==
    LET r == jinja_render(template, _context_of(schema, obj))
    IN  [kind |-> "return", val |-> IF r.kind = "raise" THEN <<r.exc>> ELSE r.val]

\* Schema._render_reference_without_object(explicit_title, reference_template)
_render_reference_without_object(schema, explicit_title, reference_template) ==
    LET context == [k \in {"type", "title"} |->
                       IF k = "title" THEN explicit_title
                       ELSE _context_without_object(schema)[k]]
    IN  jinja_render(reference_template, context)

\* Schema.render_missing_reference(explicit_title)
render_missing_reference(schema, template, explicit_title) ==
    _render_reference_without_object(schema, explicit_title, template)

\* Schema.render_ambiguous_reference(explicit_title)
render_ambiguous_reference(schema, template, explicit_title) ==
    _render_reference_without_object(schema, explicit_title, template)

RenderDescription ==
    /\ \E template \in TemplateStrs, obj \in RenderObjs :
            /\ op' = [name |-> "render_description", template |-> template, obj |-> obj]
            /\ ret' = render_description(RenderSchema, template, obj)
    /\ UNCHANGED <<objects, references, nops, decl, built, task>>

RenderReference ==
    /\ \E template \in TemplateStrs, obj \in RenderObjs :
            /\ op' = [name |-> "render_reference", template |-> template, obj |-> obj]
            /\ ret' = render_reference(RenderSchema, template, obj)
    /\ UNCHANGED <<objects, references, nops, decl, built, task>>

RenderMissingReference ==
    /\ \E template \in TemplateStrs, title \in {X, Y, Title} :
            /\ op' = [name |-> "render_missing_reference", template |-> template,
                      explicit_title |-> title]
            /\ ret' = render_missing_reference(RenderSchema, template, title)
    /\ UNCHANGED <<objects, references, nops, decl, built, task>>

RenderAmbiguousReference ==
    /\ \E template \in TemplateStrs, title \in {X, Y, Title} :
            /\ op' = [name |-> "render_ambiguous_reference", template |-> template,
                      explicit_title |-> title]
            /\ ret' = render_ambiguous_reference(RenderSchema, template, title)
    /\ UNCHANGED <<objects, references, nops, decl, built, task>>

RenderNext ==
    \/ RenderDescription
    \/ RenderReference
    \/ RenderMissingReference
    \/ RenderAmbiguousReference

RenderSpec == Init /\ [][RenderNext]_vars

-----------------------------------------------------------------------------
(* Indexer.classify on its own *)

\* classify of each built-in indexer on the reference values handed to it;
\* the date indexers are built with the default inputfmts and with a list in
\* which two patterns parse the same text
Classify ==
    LET XYZ == <<"x", "/", "y", "/", "z">>
        Day == <<"2023", "-", "10", "-", "15">>
        ClassifyStrs == {<<>>, X, XslashY, XYZ, <<"2023">>, Date, Day,
                         <<"2024", "-", "01">>}
        ClassifyValues ==
            {VNone} \cup { VStr(v) : v \in ClassifyStrs }
            \cup { VList(<<v, w>>) : v \in {X, XslashY, Date, Day}, w \in ClassifyStrs }
        inputfmts == << <<"%Y", "-", "%d">>, <<"%Y", "-", "%m">>, <<"%Y">> >>
        Indexers == {LiteralIndexer, PathIndexer("/", 1), PathIndexer("/", 2),
                     YearIndexer, MonthIndexer,
                     [YearIndexer EXCEPT !.inputfmts = inputfmts],
                     [MonthIndexer EXCEPT !.inputfmts = inputfmts]}
    IN  /\ \E ix \in Indexers, objref \in ClassifyValues :
                /\ op' = [name |-> "classify", indexer |-> ix, objref |-> objref]
                /\ ret' = [kind |-> "return", val |-> classify(ix, objref)]
        /\ UNCHANGED <<objects, references, nops, decl, built, task>>

IndexerNext == Classify

IndexerSpec == Init /\ [][IndexerNext]_vars

-----------------------------------------------------------------------------
(* Incremental build: a changed document is cleared and read again *)

\* the registry after note_object was called for each of the entities, a
\* sequence of [docname, objtype, obj], in order
RECURSIVE registry_of(_)
registry_of(entities) ==
    IF entities = <<>> THEN [objects |-> <<>>, references |-> <<>>]
    ELSE LET n == Len(entities)
             e == entities[n]
             r == registry_of(SubSeq(entities, 1, n - 1))
             schema == schemas[e.objtype]
             objid == get_object_uniq_ids(schema, e.obj)[1]
         IN  [objects |-> objects_put(r.objects, <<e.objtype, objid>>,
                                      [docname |-> e.docname,
                                       anchor |-> make_id(e.objtype, <<objid>>),
                                       obj |-> e.obj]),
              references |-> references_add(r.references, e.objtype, objid,
                                            get_object_refs(schema, e.obj))]

\* the entities of the documents of a project, document by document
entities_of(project) ==
    [i \in 1..Len(project["d1"]) |->
        [docname |-> "d1", objtype |-> project["d1"][i].objtype,
         obj |-> project["d1"][i].obj]]
    \o [i \in 1..Len(project["d2"]) |->
          [docname |-> "d2", objtype |-> project["d2"][i].objtype,
           obj |-> project["d2"][i].obj]]

\* the state after a full build of a project: every document was read
RebuildInit ==
    LET Defs == UNION { { [objtype |-> t, obj |-> o] :
                            o \in { o \in Objs(t) :
                                      get_object_uniq_ids(schemas[t], o) # <<>> } } :
                        t \in ObjTypes }
        Docs(n) == UNION { [1..m -> Defs] : m \in 0..n }
    IN  \E d1 \in Docs(MaxEntities), d2 \in Docs(1) :
            LET project == [d \in Docnames |-> IF d = "d1" THEN d1 ELSE d2]
                full == registry_of(entities_of(project))
            IN                  /\ objects = full.objects
                /\ references = full.references
                /\ op = [name |-> "init"]
                /\ ret = [kind |-> "none"]
                /\ nops = 0
                /\ decl = NoDecl
                /\ built = "unbuilt"
                /\ task = [pc |-> "built", project |-> project]

\* a document changed: its entries are invalidated before it is read again
RebuildClearDoc ==
    /\ task.pc = "built"
    /\ nops < MaxOps
    /\ \E docname \in Docnames :
            /\ clear_doc(docname)
            /\ op' = [name |-> "clear_doc", docname |-> docname]
            /\ task' = [pc |-> IF task.project[docname] = <<>> THEN "built"
                                ELSE "reading",
                        project |-> task.project, docname |-> docname,
                        todo |-> task.project[docname]]
    /\ nops' = nops + 1
    /\ UNCHANGED <<decl, built>>

\* the next directive of the document being read registers its entity
RebuildNoteObject ==
    /\ task.pc = "reading"
    /\ LET e == Head(task.todo)
           ahrid == make_id(e.objtype, get_object_uniq_ids(schemas[e.objtype], e.obj))
       IN  /\ note_object(task.docname, ahrid, e.objtype, e.obj)
           /\ op' = [name |-> "note_object", docname |-> task.docname,
                     anchor |-> ahrid, objtype |-> e.objtype, obj |-> e.obj]
    /\ task' = [task EXCEPT !.pc = IF Len(task.todo) = 1 THEN "built" ELSE "reading",
                            !.todo = Tail(task.todo)]
    /\ UNCHANGED <<nops, decl, built>>

RebuildNext ==
    \/ RebuildClearDoc
    \/ RebuildNoteObject

RebuildSpec == RebuildInit /\ [][RebuildNext]_vars

-----------------------------------------------------------------------------
(* Indices and cross-references of a built project *)

\* the registry after the documents of a project were read: d1 defines a
\* cat, d2 defines a cat or nothing; the colors are paths and dates
IndexInit ==
    LET Colors == { <<X>>, <<XslashY>>, <<X, XslashY>>,
                    <<XslashY, <<"x", "/", "z">>>>, <<Y, <<"y", "/", "x">>>>,
                    << <<"2023">> >>, <<Date>>, <<Date, <<"2023">>>>,
                    <<Date, <<"2023", "-", "10", "-", "15">>>>,
                    << <<"2023", "-", "10", "-", "15">>, <<"2024", "-", "01">> >> }
        Cats == { [objtype |-> "cat",
                   obj |-> [name |-> VStr(n), attrs |-> [color |-> VList(c)],
                            content |-> VNone]] :
                    n \in Str, c \in Colors }
    IN  \E d1 \in { <<c>> : c \in Cats }, d2 \in { <<>> } \cup { <<c>> : c \in Cats } :
            LET full == registry_of(entities_of([d \in Docnames |->
                                                   IF d = "d1" THEN d1 ELSE d2]))
            IN  /\ objects = full.objects
                /\ references = full.references
                /\ op = [name |-> "init"]
                /\ ret = [kind |-> "none"]
                /\ nops = 0
                /\ decl = NoDecl
                /\ built = "unbuilt"
                /\ task = Idle

\* one page is built from the registry: an index, or a cross-reference
IndexNext ==
    \/ (op.name = "init" /\ Generate)
    \/ (op.name = "init" /\ ResolveXref)

IndexSpec == IndexInit /\ [][IndexNext]_vars

-----------------------------------------------------------------------------
(* Schema.__eq__ (objects.py) *)

\* The values compared.  A Schema holds Field objects: a slot is [id, val],
\* id the identity of the Field object and val its attributes, or [id |-> 0]
\* for None; one object has one val.  A value of class "dict" is not a
\* Schema.
EqValues ==
    LET Slots == { [id |-> i, val |-> [uniq |-> FALSE, ref |-> r, required |-> FALSE,
                                       form |-> Forms.PLAIN]] :
                     i \in 1..2, r \in BOOLEAN }
        slots(v) == {v.name, v.content} \cup { v.attrs[i][2] : i \in 1..Len(v.attrs) }
    IN  { v \in [cls : {"Schema", "dict"}, objtype : {"cat"},
                 name : Slots, content : Slots \cup {[id |-> 0]},
                 attrs : { <<>> } \cup { << <<"color", f>> >> : f \in Slots },
                 reference_template : { <<var_piece("title")>> }] :
            \A f, g \in slots(v) \ {[id |-> 0]} : f.id = g.id => f.val = g.val }

\* pickle.dumps(schema): the attributes in the order __init__ assigns them;
\* an object met a second time is written as a reference to the memo
pickle_dumps(schema) ==
    LET flds == <<schema.name>>
                \o [i \in 1..Len(schema.attrs) |-> schema.attrs[i][2]]
                \o <<schema.content>>
        keys == <<"name">> \o [i \in 1..Len(schema.attrs) |-> schema.attrs[i][1]]
                \o <<"content">>
        first(i) == CHOOSE j \in 1..i :
                        /\ flds[j].id = flds[i].id
                        /\ \A k \in 1..(j - 1) : flds[k].id # flds[i].id
    IN  << <<"objtype", schema.objtype>> >>
        \o [i \in 1..Len(flds) |->
              <<keys[i],
                IF flds[i].id = 0 THEN <<"None">>
                ELSE IF first(i) < i THEN <<"BINGET", first(i)>>
                ELSE <<"Field", flds[i].val>> >>]
        \o << <<"reference_template", schema.reference_template>> >>

\* Schema.__eq__(self, other)
Schema_eq(self, other) ==
    IF other.cls # "Schema" THEN FALSE
    ELSE pickle_dumps(self) = pickle_dumps(other)

SchemaEq ==
    /\ op.name = "init"
    /\ \E self \in { v \in EqValues : v.cls = "Schema" }, other \in EqValues :
            /\ op' = [name |-> "__eq__", self |-> self, other |-> other]
            /\ ret' = [kind |-> "return", val |-> Schema_eq(self, other)]
    /\ UNCHANGED <<objects, references, nops, decl, built, task>>

EqNext == SchemaEq

EqSpec == Init /\ [][EqNext]_vars

-----------------------------------------------------------------------------
(* datetime.py: PartialDate *)

\* PartialDate.__new__(cls, year, month, day): month and day are None or
\* the digits of a number that is not 0
PartialDate(year, month, day) ==
    [year |-> year,
     month |-> IF month = None THEN "01" ELSE month,
     day |-> IF day = None THEN "01" ELSE day,
     no_month |-> (month = None),
     no_day |-> (day = None)]

\* PartialDate.from_date(d, fmt)
from_date(d, fmt) ==
    PartialDate(d.Y,
                IF fmt_has(fmt, {"%m", "%b", "%B"}) THEN d.m ELSE None,
                IF fmt_has(fmt, {"%d", "%j"}) THEN d.d ELSE None)

\* PartialDate.from_str(rawval, fmt) under the configured DATE_FMTS; fmt is
\* <<>> when not given
from_str(rawval, fmt, DATE_FMTS) ==
    LET fmts == IF fmt # <<>> THEN <<fmt>> ELSE DATE_FMTS
        RECURSIVE try(_)
        try(i) ==
            IF i > Len(fmts) THEN [kind |-> "raise", exc |-> "ValueError"]
            ELSE IF strptime_ok(rawval, fmts[i])
                 THEN [kind |-> "return", f |-> i,
                       val |-> from_date(strptime(rawval, fmts[i]), fmts[i])]
                 ELSE try(i + 1)
    IN  try(1)

\* __reduce__ that writes month and day as stored
PartialDate_reduce_plain(self) == <<self.year, self.month, self.day>>

\* PartialDate.__reduce__: the arguments pickle hands back to __new__
PartialDate_reduce(self) ==
    <<self.year,
      IF self.no_month THEN None ELSE self.month,
      IF self.no_day THEN None ELSE self.day>>

\* a date field value is parsed
DateFromStr ==
    /\ op.name = "init"
    /\ \E rawval \in {<<>>, X}
                      \cup { <<y>> : y \in {"2023", "2024"} }
                      \cup { <<y, "-", n>> : y \in {"2023", "2024"},
                                             n \in {"01", "10", "15"} }
                      \cup { <<y, "-", m, "-", d>> : y \in {"2023", "2024"},
                                                    m \in {"01", "10"},
                                                    d \in {"01", "15"} },
          fmt \in {<<>>, <<"%Y">>, <<"%Y", "-", "%m">>, <<"%Y", "-", "%d">>,
                   <<"%Y", "-", "%m", "-", "%d">>},
          fmts \in {INPUTFMTS,
                    << <<"%Y", "-", "%d">>, <<"%Y", "-", "%m">>, <<"%Y">> >>} :
            /\ op' = [name |-> "from_str", rawval |-> rawval, fmt |-> fmt,
                      fmts |-> IF fmt # <<>> THEN <<fmt>> ELSE fmts]
            /\ ret' = from_str(rawval, fmt, fmts)
    /\ UNCHANGED <<objects, references, nops, decl, built, task>>

\* pickle.dumps of the date parsed
DateReduce ==
    /\ op.name = "from_str"
    /\ ret.kind = "return"
    /\ op' = [name |-> "__reduce__", self |-> ret.val, rawval |-> op.rawval]
    /\ ret' = [kind |-> "return", val |-> PartialDate_reduce(ret.val)]
    /\ UNCHANGED <<objects, references, nops, decl, built, task>>

\* pickle.loads: __new__ with the arguments __reduce__ wrote
DateNew ==
    /\ op.name = "__reduce__"
    /\ op' = [name |-> "__new__", args |-> ret.val, self |-> op.self,
              rawval |-> op.rawval]
    /\ ret' = [kind |-> "return",
               val |-> PartialDate(ret.val[1], ret.val[2], ret.val[3])]
    /\ UNCHANGED <<objects, references, nops, decl, built, task>>

DateNext ==
    \/ DateFromStr
    \/ DateReduce
    \/ DateNew

DateSpec == Init /\ [][DateNext]_vars

-----------------------------------------------------------------------------
(* Resolution outcomes *)

\* C1: a lookup whose reference type names no indexer decides by the number
\* of matched identifiers: none gives no node (None), one gives a link to the
\* docname and anchor stored for that identifier, several give a link to the
\* index page '<domain>-<index name>' at the anchor 'cap-<target>'.
C1_OutcomeBySize ==
    (op.name = "resolve_xref" /\ op.reftype.indexer = None) =>
        LET t == op.reftype.objtype
            n == Cardinality(ret.objids)
        IN  /\ n = 0 => ret.node = [kind |-> "None"]
            /\ n = 1 => \E i \in ret.objids :
                            /\ <<t, i>> \in DOMAIN objects
                            /\ ret.node.kind = "refnode"
                            /\ ret.node.refdocname = objects[<<t, i>>].docname
                            /\ ret.node.refid = objects[<<t, i>>].anchor
            /\ n > 1 => /\ ret.node.kind = "refnode"
                        /\ ret.node.refdocname = "obj-" \o RefType_str(op.reftype)
                        /\ ret.node.refid = <<"cap-">> \o op.target

\* two identifiers matched, and the lookup went to the index page
C1_Witness ==
    /\ op.name = "resolve_xref"
    /\ op.reftype.indexer = None
    /\ Cardinality(ret.objids) > 1
    /\ ret.node.kind = "refnode"

\* C6: the identifiers a lookup matches are, with a field qualifier, the set
\* references[(type, field, target)] (empty when absent), and without one the
\* union of references[(type, f, target)] over the fields f of the type;
\* an entity reached through several fields is one match and is Resolved.
C6_MatchedSet ==
    (op.name = "resolve_xref" /\ op.reftype.indexer = None) =>
        LET t == op.reftype.objtype
            bucket(f) == IF <<t, f, op.target>> \in DOMAIN references
                         THEN references[<<t, f, op.target>>]
                         ELSE {}
            fieldnames == { schemas[t][i].name : i \in 1..Len(schemas[t]) }
        IN  /\ ret.objids = IF op.reftype.field # None
                            THEN bucket(op.reftype.field)
                            ELSE UNION { bucket(f) : f \in fieldnames }
            /\ Cardinality(ret.objids) = 1 =>
                   /\ ret.node.kind = "refnode"
                   /\ ret.node.child.kind = "pending_node"

\* an unqualified lookup reached one entity through two of its fields while
\* another type lists the same value
C6_Witness ==
    /\ op.name = "resolve_xref"
    /\ op.reftype = RefType("cat", None, None)
    /\ Cardinality(ret.objids) = 1
    /\ \E k1, k2 \in DOMAIN references :
          /\ k1 # k2
          /\ k1[1] = "cat" /\ k1[3] = op.target /\ references[k1] = ret.objids
          /\ k2[1] = "cat" /\ k2[3] = op.target /\ references[k2] = ret.objids
    /\ \E k \in DOMAIN references :
          k[1] = "dog" /\ k[3] = op.target /\ references[k] # ret.objids
    /\ ret.node.kind = "refnode"

\* C7: a reference type that names an indexer skips the identifier lookup
\* and always links to its index page at indexer.anchor(target), whatever
\* the registry holds.
C7_IndexerAlwaysIndexLink ==
    (op.name = "resolve_xref" /\ op.reftype.indexer # None) =>
        /\ ret.objids = {}
        /\ ret.node.kind = "refnode"
        /\ ret.node.refdocname = "obj-" \o RefType_str(op.reftype)
        /\ ret.node.refid = anchor(INDEXER_REGSITRY[op.reftype.indexer], op.target)

\* an index link was produced although exactly one entity carries the value
C7_Witness ==
    /\ op.name = "resolve_xref"
    /\ op.reftype.indexer # None
    /\ <<op.reftype.objtype, op.reftype.field, op.target>> \in DOMAIN references
    /\ Cardinality(references[<<op.reftype.objtype, op.reftype.field, op.target>>]) = 1
    /\ ret.node.kind = "refnode"

C9_ExplicitTitleVerbatim ==
    (op.name = "resolve_xref" /\ op.refexplicit /\ ret.node.kind = "refnode") =>
        ret.node.child = [kind |-> "literal", text |-> Title]

-----------------------------------------------------------------------------
(* Registration and invalidation *)

\* C2: note_object returns None and stores the entry when (type, identifier)
\* is absent, returns the entry stored before and still overwrites it when
\* present, and leaves every other entry as it was; so objects[(type, id)]
\* is always the entry of the latest registration of that key.
C2_LastWriteWins ==
    [][ (op'.name = "note_object" /\ ret'.kind = "return") =>
            LET key == <<op'.objtype,
                         get_object_uniq_ids(schemas[op'.objtype], op'.obj)[1]>>
            IN  /\ ret'.otherobj = IF key \in DOMAIN objects
                                   THEN {objects[key]} ELSE {}
                /\ DOMAIN objects' = DOMAIN objects \cup {key}
                /\ objects'[key] = [docname |-> op'.docname,
                                    anchor |-> op'.anchor, obj |-> op'.obj]
                /\ \A k \in DOMAIN objects \ {key} : objects'[k] = objects[k]
      ]_vars

\* a registration returned an entry that differs from the one now stored
C2_Witness ==
    /\ op.name = "note_object"
    /\ ret.kind = "return"
    /\ ret.otherobj # {}
    /\ \E k \in DOMAIN objects : k[1] = op.objtype /\ objects[k].obj = op.obj
                                   /\ objects[k] \notin ret.otherobj

\* C3: after note_object registers entity e of type t with identifier i,
\* every references[(t, field, value)] with (field, value) in the references
\* of e is its old set plus i, and every other reference set is unchanged.
C3_ReferencesAdded ==
    [][ (op'.name = "note_object" /\ ret'.kind = "return") =>
            LET t == op'.objtype
                i == get_object_uniq_ids(schemas[t], op'.obj)[1]
                keys == { <<t, fr[1], fr[2]>> :
                            fr \in get_object_refs(schemas[t], op'.obj) }
            IN  /\ DOMAIN references' = DOMAIN references \cup keys
                /\ \A k \in keys :
                      /\ i \in references'[k]
                      /\ references'[k] =
                           (IF k \in DOMAIN references THEN references[k] ELSE {})
                           \cup {i}
                /\ \A k \in DOMAIN references \ keys : references'[k] = references[k]
      ]_vars

\* an entity with references was registered again while another type has
\* reference sets of its own
C3_Witness ==
    /\ op.name = "note_object"
    /\ ret.kind = "return"
    /\ ret.otherobj # {}
    /\ get_object_refs(schemas[op.objtype], op.obj) # {}
    /\ \E k \in DOMAIN references : k[1] # op.objtype

\* C4: after clear_doc(location) no objects entry is stored at location, no
\* reference set holds an identifier without an objects entry, and no
\* reference set is empty; when every entry was stored at location, objects
\* and references are both empty afterwards.
C4_InvalidateCleanup ==
    [][ (op'.name = "clear_doc") =>
            /\ \A k \in DOMAIN objects' : objects'[k].docname # op'.docname
            /\ \A k \in DOMAIN references' :
                  /\ references'[k] # {}
                  /\ \A i \in references'[k] : <<k[1], i>> \in DOMAIN objects'
            /\ (\A k \in DOMAIN objects : objects[k].docname = op'.docname) =>
                  (objects' = <<>> /\ references' = <<>>)
      ]_vars

\* two entries stored at one location were invalidated together, leaving
\* both maps empty
C4_Witness ==
    /\ op.name = "clear_doc"
    /\ Cardinality(ret.objkeys) = 2
    /\ ret.refkeys # {}
    /\ objects = <<>>
    /\ references = <<>>

\* C5: clear_doc(location) keeps every objects entry stored at another
\* location, and keeps the identifier of every surviving entry (type, id)
\* in every reference set of its type that held it.
C5_OnlyInvalidatedLocation ==
    [][ (op'.name = "clear_doc") =>
            \A k \in DOMAIN objects :
                objects[k].docname # op'.docname =>
                    /\ k \in DOMAIN objects'
                    /\ objects'[k] = objects[k]
                    /\ \A r \in DOMAIN references :
                          (r[1] = k[1] /\ k[2] \in references[r]) =>
                              (r \in DOMAIN references' /\ k[2] \in references'[r])
      ]_vars

-----------------------------------------------------------------------------
(* Schema declarations *)

\* C10: a declaration with more than one unique field among name, content
\* and attrs is rejected, so a constructed Schema has at most one.
C10_AtMostOneUnique ==
    (built = "Schema" \/ built = "valid") =>
        LET all == <<decl.name, decl.content>> \o decl.attrs
        IN  Cardinality({ i \in 1..Len(all) : all[i] # NoField /\ all[i].uniq }) <= 1

-----------------------------------------------------------------------------
(* Objects of a schema *)

\* C11: Schema.object fails with ObjectError naming the field whenever a
\* required field has no raw value, fails in no other way, and returns the
\* Object when every required field has a raw value.
C11_MissingRequiredField ==
    (op.name = "object") =>
        LET missing ==
              (IF decl.name # NoField /\ decl.name.required /\ op.rawname = VNone
               THEN {"name"} ELSE {})
              \cup { decl.attrs[i].name :
                       i \in { i \in 1..Len(decl.attrs) :
                                 /\ decl.attrs[i].required
                                 /\ \A j \in 1..Len(op.attrs) :
                                       op.attrs[j][1] # decl.attrs[i].name } }
              \cup (IF decl.content # NoField /\ decl.content.required
                       /\ op.content = VNone
                    THEN {"content"} ELSE {})
        IN  IF missing # {}
            THEN /\ ret.kind = "raise"
                 /\ ret.exc = "ObjectError"
                 /\ ret.field \in missing
            ELSE /\ ret.kind = "return"
                 /\ ret.obj = Object(decl.objtype, op.rawname, op.attrs, op.content)

\* C12: every entity gets an identifier, the first value of its unique field
\* or else the hash of the serialized entity, so note_object never fails for
\* want of one: every registration returns and stores the entity under that
\* identifier.
C12_EveryEntityHasIdentifier ==
    (op.name = "note_object") =>
        LET its == items(schemas[op.objtype], op.obj)
            u == first_uniq(its, 1)
            objid == IF u # 0 /\ as_list(its[u].val) # <<>>
                     THEN as_list(its[u].val)[1]
                     ELSE sha1(op.obj)
        IN  /\ ret.kind = "return"
            /\ <<op.objtype, objid>> \in DOMAIN objects
            /\ objects[<<op.objtype, objid>>].obj = op.obj

\* C13: identifier_of is deterministic and independent of the order in
\* which fields are iterated: an equal entity whose attrs are held in
\* another order gets the same identifier, fallback hash included.
C13_IdentifierDeterminism ==
    (op.name = "identifier_of" /\ Object_eq(op.obj, op.other)) =>
        ret.val = ret.again

\* C14: references_of(entity) is the set of (field name, value) pairs over
\* every referenceable field and every element of its value taken as a list
\* (values compared up to surrounding whitespace): fields that are not
\* referenceable contribute nothing, no pair has an empty-string value,
\* whether the field is scalar or list-valued, and duplicates collapse.
C14_ReferencesOf ==
    (op.name = "references_of") =>
        LET fvs == field_values(decl, op.obj)
            elems(f) == UNION { { as_list(fvs[i].val)[j] : j \in 1..Len(as_list(fvs[i].val)) } :
                                i \in { i \in 1..Len(fvs) : fvs[i].name = f } }
            isref(f) == \E i \in 1..Len(fvs) : fvs[i].name = f /\ fvs[i].field.ref
        IN  /\ \A p \in ret.val :
                  /\ isref(p[1])
                  /\ p[2] # <<>>
                  /\ \E x \in elems(p[1]) : strip(x) = strip(p[2])
            /\ \A i \in 1..Len(fvs) :
                  fvs[i].field.ref =>
                      \A x \in elems(fvs[i].name) :
                          strip(x) # <<>> =>
                              \E p \in ret.val : p[1] = fvs[i].name /\ strip(p[2]) = strip(x)

-----------------------------------------------------------------------------
(* Categories *)

\* C18, as claimed: every Category that classify of a built-in indexer
\* (Literal, Path with max depth 1 or 2, Year, Month) produces has extra set
\* only if sub is set.
C18_ExtraOnlyWithSub_Claimed ==
    (op.name = "classify") =>
        \A i \in 1..Len(ret.val) :
            ret.val[i].extra # VNone => ret.val[i].sub # VNone

\* C18, amended: every Category that classify of the Literal and Year
\* indexers produces has extra set only if sub is set; every Category of a
\* Path indexer has extra set, and sub only with max depth 2; no Category of
\* the Month indexer has sub set.
C18_ExtraOnlyWithSub ==
    (op.name = "classify") =>
        \A i \in 1..Len(ret.val) :
            LET c == ret.val[i]
            IN  /\ op.indexer.kind \in {"literal", "year"} =>
                      (c.extra # VNone => c.sub # VNone)
                /\ op.indexer.kind = "path" =>
                      /\ c.extra # VNone
                      /\ c.sub # VNone => op.indexer.maxsplit = 2
                /\ op.indexer.kind = "month" => c.sub = VNone

\* the Year indexer classified a full date under its month, with the day as
\* extra
C18_Witness ==
    /\ op.name = "classify"
    /\ op.indexer.kind = "year"
    /\ \E i \in 1..Len(ret.val) :
          /\ ret.val[i].sub # VNone
          /\ ret.val[i].extra \notin {VNone, VStr(<<>>)}

-----------------------------------------------------------------------------
(* Indices *)

\* C15, as claimed: every identifier present in a references bucket for
\* (type, field) appears in exactly one object IndexEntry of the Literal
\* index generated for (type, field), so no identifier is duplicated across
\* the entries of that index.
C15_IndexRoundTrip_Claimed ==
    (/\ op.name = "generate"
     /\ op.reftype.field # None
     /\ op.reftype.indexer \in {None, "lit", "literal"}
     /\ op.docnames = {}) =>
        LET EntriesOf(g, objtype, objid) ==
              { n \in 1..Len(ret.content[g][2]) :
                  /\ ret.content[g][2][n].subtype # 1
                  /\ ret.content[g][2][n].docname = objects[<<objtype, objid>>].docname
                  /\ ret.content[g][2][n].anchor = objects[<<objtype, objid>>].anchor }
        IN  /\ ret.kind = "return"
            /\ \A k \in DOMAIN references :
                  (k[1] = op.reftype.objtype /\ k[2] = op.reftype.field) =>
                      \A i \in references[k] :
                          Cardinality(UNION { { <<g, n>> : n \in EntriesOf(g, k[1], i) } :
                                                g \in 1..Len(ret.content) }) = 1

\* C15, amended: every identifier present in the references bucket for
\* (type, field, value) appears in exactly one object IndexEntry of the
\* group of that value in the Literal index generated for (type, field);
\* an identifier listed under several values has one entry in each of their
\* groups, and none is duplicated within a group.
C15_IndexRoundTrip ==
    (/\ op.name = "generate"
     /\ op.reftype.field # None
     /\ op.reftype.indexer \in {None, "lit", "literal"}
     /\ op.docnames = {}) =>
        LET EntriesOf(g, objtype, objid) ==
              { n \in 1..Len(ret.content[g][2]) :
                  /\ ret.content[g][2][n].subtype # 1
                  /\ ret.content[g][2][n].docname = objects[<<objtype, objid>>].docname
                  /\ ret.content[g][2][n].anchor = objects[<<objtype, objid>>].anchor }
        IN  /\ ret.kind = "return"
            /\ \A k \in DOMAIN references :
                  (k[1] = op.reftype.objtype /\ k[2] = op.reftype.field) =>
                      /\ Cardinality({ g \in 1..Len(ret.content) :
                                         ret.content[g][1] = k[3] }) = 1
                      /\ \A i \in references[k] :
                            \A g \in 1..Len(ret.content) :
                                ret.content[g][1] = k[3] =>
                                    Cardinality(EntriesOf(g, k[1], i)) = 1
            /\ \A g \in 1..Len(ret.content) :
                  \A n \in 1..Len(ret.content[g][2]) :
                      \E k \in DOMAIN references :
                          /\ k = <<op.reftype.objtype, op.reftype.field, ret.content[g][1]>>
                          /\ \E i \in references[k] : n \in EntriesOf(g, k[1], i)

\* an index was generated in which one identifier is listed under two
\* values and one value lists two identifiers
C15_Witness ==
    /\ (/\ op.name = "generate"
        /\ op.reftype.field # None
        /\ op.reftype.indexer \in {None, "lit", "literal"}
        /\ op.docnames = {})
    /\ ret.kind = "return"
    /\ \E k1, k2 \in DOMAIN references :
          /\ k1 # k2
          /\ k1[1] = op.reftype.objtype /\ k1[2] = op.reftype.field
          /\ k2[1] = op.reftype.objtype /\ k2[2] = op.reftype.field
          /\ references[k1] \cap references[k2] # {}
          /\ Cardinality(references[k1]) = 2
    /\ Len(ret.content) = 2

\* C16: resolve_xref and ObjIndex.generate are read-only against the
\* registry: whatever the input and the outcome, objects and references,
\* the membership of every reference set included, are afterwards exactly
\* what they were.
C16_ReadOnly ==
    [][ (op'.name \in {"resolve_xref", "generate"}) =>
            (objects' = objects /\ references' = references)
      ]_vars

\* a lookup by field was Resolved with the one identifier of a stored set,
\* and the set still holds it
C16_Witness ==
    /\ op.name = "resolve_xref"
    /\ op.reftype.field # None
    /\ op.reftype.indexer = None
    /\ Cardinality(ret.objids) = 1
    /\ ret.node.kind = "refnode"
    /\ references[<<op.reftype.objtype, op.reftype.field, op.target>>] = ret.objids

-----------------------------------------------------------------------------
(* Parallel processing *)

\* C17: the updates of note_object and clear_doc are never observed
\* half-done: no resolve_xref or generate that runs between their
\* statements sees a reference set holding an identifier that has no
\* objects entry.
C17_AtomicForReaders ==
    (op.name \in {"resolve_xref", "generate"}) =>
        \A k \in DOMAIN references :
            \A i \in references[k] : <<k[1], i>> \in DOMAIN objects

-----------------------------------------------------------------------------
(* Rendering *)

\* C19: a template rendering failure never leaves the render operations of
\* the Schema: for each of the description, reference, missing-reference and
\* ambiguous-reference templates, a failing render returns the stringified
\* error as the rendered text.
C19_RenderFailureContained ==
    (op.name \in {"render_description", "render_reference",
                  "render_missing_reference", "render_ambiguous_reference"}) =>
        /\ ret.kind = "return"
        /\ \A e \in {SyntaxErrorPiece, UndefinedErrorPiece} :
              (\E i \in 1..Len(op.template) : op.template[i] = e) =>
                  \E exc \in {"TemplateSyntaxError", "UndefinedError"} :
                      ret.val = IF op.name = "render_description"
                                THEN << <<exc>> >> ELSE <<exc>>

-----------------------------------------------------------------------------
(* Embedded objects *)

\* C20: PendingObject.resolve falls back to references: when (objtype,
\* objid) is not a key of objects but some references[(objtype, field,
\* objid)] is non-empty, it returns the object stored for one of the
\* identifiers in those sets.
C20_ResolveByReference ==
    (op.name = "resolve") =>
        LET ids == UNION { references[k] :
                             k \in { k \in DOMAIN references :
                                       k[1] = op.objtype /\ k[3] = op.objid } }
        IN  (<<op.objtype, op.objid>> \notin DOMAIN objects /\ ids # {}) =>
                /\ ret.kind = "return"
                /\ \E i \in ids :
                      /\ <<op.objtype, i>> \in DOMAIN objects
                      /\ ret.obj = objects[<<op.objtype, i>>].obj

\* C21: PendingObject.resolve returns exactly the object stored under
\* (objtype, objid) when that key exists, raises KeyError when objid is
\* neither an identifier of the type nor one of its reference values, and
\* never returns an object of another type.
C21_ResolveExact ==
    (op.name = "resolve") =>
        LET key == <<op.objtype, op.objid>>
            isref == \E k \in DOMAIN references :
                        k[1] = op.objtype /\ k[3] = op.objid /\ references[k] # {}
        IN  /\ key \in DOMAIN objects =>
                  ret = [kind |-> "return", obj |-> objects[key].obj]
            /\ (key \notin DOMAIN objects /\ ~isref) =>
                  ret = [kind |-> "raise", exc |-> "KeyError"]
            /\ ret.kind = "return" => ret.obj \in Objs(op.objtype)

\* an object was resolved by an identifier that an object of the other type
\* carries too
C21_Witness ==
    /\ op.name = "resolve"
    /\ ret.kind = "return"
    /\ \E k \in DOMAIN objects : k[1] # op.objtype /\ k[2] = op.objid

-----------------------------------------------------------------------------
(* Partial dates *)

\* C22: from_str sets no_month exactly when the matched input pattern has
\* no month directive and no_day exactly when it has no day directive; the
\* date rebuilt by __new__ from what __reduce__ wrote has the same year,
\* month, day, no_month and no_day.
C22_PartialDateRoundTrip ==
    /\ (op.name = "from_str" /\ ret.kind = "return") =>
          LET f == op.fmts[ret.f]
          IN  /\ \A i \in 1..(ret.f - 1) : ~strptime_ok(op.rawval, op.fmts[i])
              /\ strptime_ok(op.rawval, f)
              /\ ret.val.no_month <=> ~\E i \in 1..Len(f) : f[i] = "%m"
              /\ ret.val.no_day <=> ~\E i \in 1..Len(f) : f[i] = "%d"
    /\ (op.name = "__new__") => ret.val = op.self

\* the date parsed from '2023' came back from the round trip; it has the
\* calendar date of '2023-01' and '2023-01-01' and differs from both
C22_Witness ==
    /\ op.name = "__new__"
    /\ op.rawval = <<"2023">>
    /\ ret.val.month = "01"
    /\ ret.val.no_month
    /\ ret.val.no_day
    /\ ret.val # PartialDate("2023", "01", None)
    /\ ret.val # PartialDate("2023", "01", "01")

-----------------------------------------------------------------------------
(* Schema equality *)

\* C23: two Schemas with identical declarations (type name, name, attrs
\* and content fields, templates) compare equal, and a Schema never
\* compares equal to a value that is not a Schema.
C23_StructuralEquality ==
    (op.name = "__eq__") =>
        LET decl_of(v) ==
              [objtype |-> v.objtype,
               name |-> v.name.val,
               attrs |-> [i \in 1..Len(v.attrs) |->
                            <<v.attrs[i][1], v.attrs[i][2].val>>],
               content |-> IF v.content.id = 0 THEN [id |-> 0] ELSE v.content.val,
               reference_template |-> v.reference_template]
        IN  /\ (op.other.cls = "Schema" /\ decl_of(op.self) = decl_of(op.other)) =>
                  ret.val = TRUE
            /\ op.other.cls # "Schema" => ret.val = FALSE

-----------------------------------------------------------------------------
(* Registry invariants *)

\* C24: every identifier in references[(type, field, value)] has an entry
\* objects[(type, identifier)], so the object lookups of resolve_xref and
\* of ObjIndex._generate_index_entry never raise KeyError.
C24_NoDanglingIdentifiers ==
    /\ \A k \in DOMAIN references :
          \A i \in references[k] : <<k[1], i>> \in DOMAIN objects
    /\ op.name = "resolve_xref" => ret.node.kind # "raise"
    /\ op.name = "generate" => ret.kind # "raise"

\* one of two entities sharing a reference value was invalidated and the
\* other is still listed under the value
C24_Witness ==
    /\ op.name = "clear_doc"
    /\ ret.objkeys # {}
    /\ \E k \in DOMAIN references :
          /\ references[k] # {}
          /\ \E o \in ret.objkeys : o[1] = k[1] /\ o[2] \notin references[k]

\* C25: for every identifier id in references[(type, field, value)], the
\* entity stored in objects[(type, id)] has (field, value) among its
\* references; an identifier whose entry was overwritten is not listed
\* under values that only the overwritten entity had.
C25_ReferencesAgreeWithObjects ==
    \A k \in DOMAIN references :
        \A i \in references[k] :
            /\ <<k[1], i>> \in DOMAIN objects
            /\ <<k[2], k[3]>> \in get_object_refs(schemas[k[1]],
                                                  objects[<<k[1], i>>].obj)

\* C26: when no two entities of the project share a (type, identifier)
\* pair, the registry after clear_doc(location) and the registration of
\* the entities of that location again equals the registry of a full
\* build.
C26_IncrementalEqualsFull ==
    (task.pc = "built") =>
        LET es == entities_of(task.project)
            key(e) == <<e.objtype, get_object_uniq_ids(schemas[e.objtype], e.obj)[1]>>
            full == registry_of(es)
        IN  (\A i, j \in 1..Len(es) : key(es[i]) = key(es[j]) => i = j) =>
                /\ objects = full.objects
                /\ references = full.references

-----------------------------------------------------------------------------
(* Generated indices *)

\* C27: generate returns one group per main category; in a group the
\* normal entries (subtype 0) of the identifiers of the single bucket come
\* first, then for each (main, sub) pair of the dual bucket one parent entry
\* (subtype 1, named by sub, without document) immediately followed by the
\* child entries of the identifiers under that pair.
C27_GroupShape ==
    (op.name = "generate" /\ ret.kind = "return") =>
        LET ix == (CHOOSE x \in indices_for_reftype : x.reftype = op.reftype).indexer
            cats == generate_categories(references, op.reftype, ix)
            shown(c) == { i \in generate_objids(references, op.reftype, ix, c) :
                            \/ op.docnames = {}
                            \/ objects[<<op.reftype.objtype, i>>].docname
                                  \in op.docnames }
            is_entry_of(e, c, i) ==
                /\ e.docname = objects[<<op.reftype.objtype, i>>].docname
                /\ e.anchor = objects[<<op.reftype.objtype, i>>].anchor
                /\ e.extra = (IF c.extra = VNone THEN <<>> ELSE c.extra.v[1])
            E(g) == ret.content[g][2]
            parent(g, n) == CHOOSE m \in 1..n :
                                /\ E(g)[m].subtype = 1
                                /\ \A k \in (m + 1)..n : E(g)[k].subtype # 1
        IN  /\ { ret.content[g][1] : g \in 1..Len(ret.content) } = { c.main : c \in cats }
            /\ \A g, h \in 1..Len(ret.content) :
                  ret.content[g][1] = ret.content[h][1] => g = h
            /\ \A g \in 1..Len(ret.content) :
                  LET main == ret.content[g][1]
                      singles == { c \in cats : c.main = main /\ c.sub = VNone }
                      duals == { c \in cats : c.main = main /\ c.sub # VNone }
                  IN  /\ \A n \in 1..Len(E(g)) : E(g)[n].subtype \in {0, 1, 2}
                      \* the normal entries come first, one per identifier
                      /\ \A n \in 1..Len(E(g)) :
                            E(g)[n].subtype = 0 =>
                                /\ \A m \in 1..n : E(g)[m].subtype = 0
                                /\ \E c \in singles : \E i \in shown(c) :
                                      is_entry_of(E(g)[n], c, i)
                      /\ Cardinality({ n \in 1..Len(E(g)) : E(g)[n].subtype = 0 })
                           = Cardinality(UNION { { <<c, i>> : i \in shown(c) } :
                                                   c \in singles })
                      \* one parent entry per (main, sub) pair
                      /\ \A n \in 1..Len(E(g)) :
                            E(g)[n].subtype = 1 =>
                                /\ E(g)[n].docname = ""
                                /\ \E c \in duals : c.sub = VStr(E(g)[n].name)
                      /\ \A c \in duals :
                            Cardinality({ n \in 1..Len(E(g)) :
                                            /\ E(g)[n].subtype = 1
                                            /\ VStr(E(g)[n].name) = c.sub }) = 1
                      \* every child entry follows the parent entry of its pair
                      /\ \A n \in 1..Len(E(g)) :
                            E(g)[n].subtype = 2 =>
                                /\ \E m \in 1..n : E(g)[m].subtype = 1
                                /\ \E c \in duals : \E i \in shown(c) :
                                      /\ c.sub = VStr(E(g)[parent(g, n)].name)
                                      /\ is_entry_of(E(g)[n], c, i)
                      /\ Cardinality({ n \in 1..Len(E(g)) : E(g)[n].subtype = 2 })
                           = Cardinality(UNION { { <<c, i>> : i \in shown(c) } :
                                                   c \in duals })

\* an index was generated with a group that holds a normal entry, and two
\* parent entries each followed by a child entry
C27_Witness ==
    /\ op.name = "generate"
    /\ ret.kind = "return"
    /\ \E g \in 1..Len(ret.content) :
          LET e == ret.content[g][2]
          IN  /\ Len(e) >= 5
              /\ e[1].subtype = 0
              /\ Cardinality({ n \in 1..Len(e) : e[n].subtype = 1 }) = 2
              /\ e[Len(e)].subtype = 2

\* C28: the groups returned by generate, the parent entries of a group, the
\* normal entries of a group and the child entries under one parent are in
\* the order of the indexer's sort: ascending (main, sub, extra) for the
\* literal and path indexers, newest first for the year and month indexers.
\* generate does not raise for a date indexer, and an entry of a date index
\* whose extra is empty comes after the entries with a day that stand beside
\* it under the same parent (year) or in the same group (month).
C28_IndexOrdering ==
    op.name = "generate" =>
        LET ix == (CHOOSE x \in indices_for_reftype : x.reftype = op.reftype).indexer
            dated == ix.kind \in {"year", "month"}
            before(a, b) == IF dated THEN sort_by_time_lt(ix, b, a)
                            ELSE sort_key_lt(a, b)
            E(g) == ret.content[g][2]
            opt(s) == IF s = <<>> THEN VNone ELSE VStr(s)
            parent(g, n) == CHOOSE m \in 1..n :
                                /\ E(g)[m].subtype = 1
                                /\ \A k \in (m + 1)..n : E(g)[k].subtype # 1
            cat(g, n) ==
                CASE E(g)[n].subtype = 0 ->
                        Category(ret.content[g][1], VNone, opt(E(g)[n].extra))
                  [] E(g)[n].subtype = 1 ->
                        Category(ret.content[g][1], VStr(E(g)[n].name), VNone)
                  [] E(g)[n].subtype = 2 ->
                        Category(ret.content[g][1], VStr(E(g)[parent(g, n)].name),
                                 opt(E(g)[n].extra))
            beside(g, n, m) ==
                /\ E(g)[n].subtype = E(g)[m].subtype
                /\ E(g)[n].subtype = 2 => parent(g, n) = parent(g, m)
        IN  /\ dated => ret.kind = "return"
            /\ ret.kind = "return" =>
                  /\ \A g, h \in 1..Len(ret.content) :
                        g < h => ~before(Category(ret.content[h][1], VNone, VNone),
                                         Category(ret.content[g][1], VNone, VNone))
                  /\ \A g \in 1..Len(ret.content) : \A n, m \in 1..Len(E(g)) :
                        (n < m /\ beside(g, n, m)) =>
                            /\ ~before(cat(g, m), cat(g, n))
                            /\ (dated /\ E(g)[n].subtype # 1 /\ E(g)[n].extra = <<>>)
                                  => E(g)[m].extra = <<>>

\* a year index of two groups, one with a parent whose child of a whole date
\* stands before the child that has a month only
C28_Witness ==
    /\ op.name = "generate"
    /\ ret.kind = "return"
    /\ op.reftype.indexer = "year"
    /\ Len(ret.content) >= 2
    /\ \E g \in 1..Len(ret.content) :
          \E n, m \in 1..Len(ret.content[g][2]) :
              /\ n < m
              /\ ret.content[g][2][n].subtype = 2
              /\ ret.content[g][2][m].subtype = 2
              /\ ret.content[g][2][n].extra # <<>>
              /\ ret.content[g][2][m].extra = <<>>

-----------------------------------------------------------------------------
(* Date patterns *)

\* C29: the input patterns are tried in order and the first that parses the
\* value decides: from_str returns the date of the first matching pattern
\* (ValueError when none matches), and classify of a year or month indexer
\* yields for one value the one Category of the first matching pattern, or
\* none when no pattern parses it, so never more categories than values.
C29_FirstPatternDecides ==
    LET first(v, fmts) ==
            IF \E i \in 1..Len(fmts) : strptime_ok(v, fmts[i])
            THEN CHOOSE i \in 1..Len(fmts) :
                    /\ strptime_ok(v, fmts[i])
                    /\ \A j \in 1..(i - 1) : ~strptime_ok(v, fmts[j])
            ELSE 0
    IN  /\ op.name = "from_str" =>
              IF first(op.rawval, op.fmts) = 0 THEN ret.kind = "raise"
              ELSE /\ ret.kind = "return"
                   /\ ret.val = from_date(strptime(op.rawval,
                                                   op.fmts[first(op.rawval, op.fmts)]),
                                          op.fmts[first(op.rawval, op.fmts)])
        /\ (op.name = "classify" /\ op.indexer.kind \in {"year", "month"}) =>
              /\ Len(ret.val) <= Len(as_list(op.objref))
              /\ Len(as_list(op.objref)) = 1 =>
                    LET v == as_list(op.objref)[1]
                        f == first(v, op.indexer.inputfmts)
                    IN  ret.val =
                          IF f = 0 THEN <<>>
                          ELSE IF op.indexer.kind = "year"
                          THEN << year_entry(op.indexer, v, op.indexer.inputfmts[f]) >>
                          ELSE << month_entry(op.indexer, v, op.indexer.inputfmts[f]) >>

-----------------------------------------------------------------------------
(* Ambiguous links *)

\* C30: when resolve_xref returns an index link because more than one
\* identifier matched the target, the link goes to the index of the same
\* reference type with the anchor 'cap-<target>', and that index, generated
\* for all documents, has a group whose main category is the target and
\* which holds an entry for every matched identifier.
C30_AmbiguousLinkLands ==
    (op.name = "resolve_xref" /\ Cardinality(ret.objids) > 1) =>
        LET index == CHOOSE ix \in indices_for_reftype : ix.reftype = op.reftype
            lists(idx, i) ==
                \E g \in 1..Len(idx.content) :
                    /\ <<"cap-">> \o idx.content[g][1] = ret.node.refid
                    /\ idx.content[g][1] = op.target
                    /\ \E n \in 1..Len(idx.content[g][2]) :
                          LET e == idx.content[g][2][n]
                              o == objects[<<op.reftype.objtype, i>>]
                          IN  /\ e.docname = o.docname
                              /\ e.anchor = o.anchor
        IN  /\ ret.node.kind = "refnode"
            /\ ret.node.refdocname = domain_name \o "-" \o RefType_str(op.reftype)
            /\ \A order \in Perms(UNION { references[k] : k \in DOMAIN references }) :
                  LET idx == generate(objects, references, op.reftype, index.indexer,
                                      {}, order)
                  IN  /\ idx.kind = "return"
                      /\ \A i \in ret.objids : lists(idx, i)

\* an index link returned for a target that two identifiers match
C30_Witness ==
    /\ op.name = "resolve_xref"
    /\ Cardinality(ret.objids) > 1
    /\ ret.node.kind = "refnode"
    /\ ret.node.refid = <<"cap-">> \o op.target

====
